---- MODULE Spec2Model ----
(***************************************************************************)
(* BananaPod gateway (Cloudflare worker): session authentication, the      *)
(* generation orchestrator (streaming and batch), video operations, the    *)
(* history ledger (D1), the media store (R2) and the request router.       *)
(*                                                                         *)
(* Strings the code inspects character by character (cookie headers,       *)
(* session ids, user keys, KV values) are sequences of one-character       *)
(* strings.  The clock moves in whole seconds and times are written in     *)
(* seconds: Date.now() is 1000 * now, and a span of n * 1000 ms is n.      *)
(***************************************************************************)
EXTENDS Integers, Sequences, FiniteSets, TLC

VARIABLES
    now,            \* Date.now() / 1000
    ticks,          \* number of clock advances so far (bounds the run)
    kv,             \* USERS_KV credential entries: user key -> value
    sessions,       \* D1 table sessions: session_id -> row
    usedSids,       \* session ids crypto.randomUUID() has already returned
    history,        \* D1 table history: id -> row
    bucket,         \* MEDIA_BUCKET (R2): r2_key -> object
    usedIds,        \* media ids crypto.randomUUID() has already returned
    videoOps,       \* USERS_KV entries videoop:<name>: name -> {userKey, prompt}
    provider,       \* the provider's long-running operations: name -> state
    cache,          \* caches.default: media id -> cached response
    upstreamCalls,  \* number of requests sent to the provider so far
    gen,            \* the generate/edit request in flight (or idle)
    del,            \* the history delete request in flight (or idle)
    resp,           \* the last request completed and its response
    vid,            \* the video status requests in flight: slot -> position
    walk,           \* a client following nextCursor through its history
    sent,           \* the parts of the last generateContent request built
    sse             \* a client reading the event stream of a generation

vars == <<now, ticks, kv, sessions, usedSids, history, bucket, usedIds,
          videoOps, provider, cache, upstreamCalls, gen, del, resp, vid, walk,
          sent, sse>>

----------------------------------------------------------------------------
(* Bounds of the model *)

MaxTicks == 2
MaxCalls == 5

(* Program constants *)

SESSION_TTL_SECONDS == 2592000
MaxCount == 5
MinCount == 1
MaxLimit == 50
MinLimit == 1
HANDLE_TTL_SECONDS == 86400

----------------------------------------------------------------------------
(* Strings as character sequences *)

(* null / undefined where the code expects a string: no character is "NUL" *)
Null == <<"NUL">>

Alice == <<"a">>
Bob == <<"b">>
UserKeys == {Alice, Bob}

Sid1 == <<"s", "1">>
Sid2 == <<"s", "2">>
Sid3 == <<"s", "3">>
Sids == {Sid1, Sid2, Sid3}

SESSION_COOKIE == <<"b", "p", "_", "s", "e", "s", "s", "i", "o", "n">>
LEGACY_JWT_COOKIE == <<"b", "p", "_", "t", "o", "k", "e", "n">>

IsSpace(c) == c = " "

RECURSIVE TrimLeft(_)
TrimLeft(s) ==
    IF s # <<>> /\ IsSpace(Head(s)) THEN TrimLeft(Tail(s)) ELSE s

RECURSIVE TrimRight(_)
TrimRight(s) ==
    IF s # <<>> /\ IsSpace(s[Len(s)]) THEN TrimRight(SubSeq(s, 1, Len(s) - 1)) ELSE s

(* String.prototype.trim *)
Trim(s) == TrimRight(TrimLeft(s))

(* String.prototype.indexOf for a single character, 1-based; 0 is "not found" *)
IndexOf(s, c) ==
    IF \E i \in 1..Len(s) : s[i] = c
    THEN CHOOSE i \in 1..Len(s) : s[i] = c /\ \A j \in 1..(i - 1) : s[j] # c
    ELSE 0

(* String.prototype.split on a single character *)
RECURSIVE Split(_, _)
Split(s, c) ==
    LET i == IndexOf(s, c)
    IN  IF i = 0 THEN <<s>>
        ELSE <<SubSeq(s, 1, i - 1)>> \o Split(SubSeq(s, i + 1, Len(s)), c)

----------------------------------------------------------------------------
(* decodeURIComponent / encodeURIComponent *)

HexDigits == {"0", "1", "2", "3", "4", "5", "6", "7", "8", "9",
              "a", "b", "c", "d", "e", "f", "A", "B", "C", "D", "E", "F"}

HexVal(c) ==
    CASE c = "0" -> 0 [] c = "1" -> 1 [] c = "2" -> 2 [] c = "3" -> 3
      [] c = "4" -> 4 [] c = "5" -> 5 [] c = "6" -> 6 [] c = "7" -> 7
      [] c = "8" -> 8 [] c = "9" -> 9
      [] c \in {"a", "A"} -> 10 [] c \in {"b", "B"} -> 11
      [] c \in {"c", "C"} -> 12 [] c \in {"d", "D"} -> 13
      [] c \in {"e", "E"} -> 14 [] c \in {"f", "F"} -> 15

(* The character of an ASCII code; codes the model's strings never use are  *)
(* all written "?" (some character outside the session-id alphabet).        *)
AsciiChar(code) ==
    CASE code = 115 -> "s" [] code = 49 -> "1" [] code = 50 -> "2"
      [] code = 51 -> "3" [] code = 61 -> "=" [] code = 32 -> " "
      [] OTHER -> "?"

(* s starts with %XX: a percent sign and two hex digits *)
IsEscape(s) ==
    Len(s) >= 3 /\ s[1] = "%" /\ s[2] \in HexDigits /\ s[3] \in HexDigits

EscapeByte(s) == 16 * HexVal(s[2]) + HexVal(s[3])

(* Number of UTF-8 continuation bytes a lead byte announces; -1: not a lead *)
ContinuationCount(byte) ==
    IF byte >= 194 /\ byte <= 223 THEN 1
    ELSE IF byte >= 224 /\ byte <= 239 THEN 2
    ELSE IF byte >= 240 /\ byte <= 244 THEN 3
    ELSE -1

RECURSIVE HasContinuations(_, _)
HasContinuations(s, n) ==
    IF n = 0 THEN TRUE
    ELSE /\ IsEscape(s)
         /\ EscapeByte(s) >= 128 /\ EscapeByte(s) <= 191
         /\ HasContinuations(SubSeq(s, 4, Len(s)), n - 1)

(* The character an escape sequence led by this byte decodes to; a         *)
(* well-formed multi-byte escape is one non-ASCII character, written "?".   *)
DecodedChar(byte) == IF byte < 128 THEN AsciiChar(byte) ELSE "?"

(* Continuation escapes that follow the escape of this byte; -1: malformed *)
EscapeLength(byte) == IF byte < 128 THEN 0 ELSE ContinuationCount(byte)

(* A decoded character in front of the decoded rest, if the rest decoded *)
Prepend(c, r) == [ok |-> r.ok, val |-> IF r.ok THEN <<c>> \o r.val ELSE <<>>]

(* decodeURIComponent: ok = FALSE is the URIError it throws on a malformed  *)
(* escape.                                                                  *)
RECURSIVE DecodeURIComponent(_)
DecodeURIComponent(s) ==
    IF s = <<>> THEN [ok |-> TRUE, val |-> <<>>]
    ELSE IF Head(s) # "%" THEN Prepend(Head(s), DecodeURIComponent(Tail(s)))
    ELSE IF ~IsEscape(s) THEN [ok |-> FALSE, val |-> <<>>]
    ELSE IF EscapeLength(EscapeByte(s)) = -1 THEN [ok |-> FALSE, val |-> <<>>]
    ELSE IF ~HasContinuations(SubSeq(s, 4, Len(s)), EscapeLength(EscapeByte(s)))
         THEN [ok |-> FALSE, val |-> <<>>]
    ELSE Prepend(DecodedChar(EscapeByte(s)),
                 DecodeURIComponent(
                     SubSeq(s, 3 * EscapeLength(EscapeByte(s)) + 4, Len(s))))

Unreserved == {"a", "b", "s", "p", "t", "o", "k", "e", "n", "i", "_",
               "0", "1", "2", "3", "4", "5", "6", "7", "8", "9", "-", "."}

EscapeOf(c) ==
    CASE c = "=" -> <<"%", "3", "D">> [] c = " " -> <<"%", "2", "0">>
      [] c = ";" -> <<"%", "3", "B">> [] c = "%" -> <<"%", "2", "5">>
      [] OTHER -> <<"%", "3", "F">>

RECURSIVE EncodeURIComponent(_)
EncodeURIComponent(s) ==
    IF s = <<>> THEN <<>>
    ELSE (IF Head(s) \in Unreserved THEN <<Head(s)>> ELSE EscapeOf(Head(s)))
         \o EncodeURIComponent(Tail(s))

----------------------------------------------------------------------------
(* http.ts *)

(* json(data, init): status, JSON body, Set-Cookie headers *)
Json(data, status, cookies) ==
    [status |-> status, body |-> data, setCookie |-> cookies]

ErrorJson(status, message) == Json([error |-> message], status, <<>>)

(* What the runtime answers when routeApi rejects with an uncaught error *)
Uncaught(message) == Json([exception |-> message], 500, <<>>)

(* getCookie: tag "null" (no such cookie), "str" (its decoded value) or     *)
(* "throw" (decodeURIComponent raised).  header is Null or a string.        *)
(* p.slice(0, eq) and p.slice(eq + 1) of one "name=value" part *)
CookieName(p) == SubSeq(p, 1, IndexOf(p, "=") - 1)

CookieValue(p) == SubSeq(p, IndexOf(p, "=") + 1, Len(p))

(* The value getCookie returns for a decoded part, or the URIError *)
Decoded(d) ==
    IF d.ok THEN [tag |-> "str", val |-> d.val] ELSE [tag |-> "throw", val |-> <<>>]

RECURSIVE FirstCookie(_, _)
FirstCookie(parts, name) ==
    IF parts = <<>> THEN [tag |-> "null", val |-> <<>>]
    ELSE IF IndexOf(Trim(Head(parts)), "=") = 0 THEN FirstCookie(Tail(parts), name)
    ELSE IF CookieName(Trim(Head(parts))) = name
         THEN Decoded(DecodeURIComponent(CookieValue(Trim(Head(parts)))))
    ELSE FirstCookie(Tail(parts), name)

GetCookie(header, name) ==
    IF header = Null \/ header = <<>> THEN [tag |-> "null", val |-> <<>>]
    ELSE FirstCookie(Split(header, ";"), name)

(* setCookie: the directive's attributes, in the order they are joined *)
SetCookie(name, value, maxAgeSeconds) ==
    [name |-> name, value |-> EncodeURIComponent(value), path |-> "/",
     maxAge |-> maxAgeSeconds, httpOnly |-> TRUE, secure |-> TRUE,
     sameSite |-> "Lax"]

----------------------------------------------------------------------------
(* The Cookie headers of the model's requests *)

(* Cookie: bp_session=<value> *)
SessionCookieOf(value) == SESSION_COOKIE \o <<"=">> \o value

(* The Cookie headers a client sends: none, a session id (alone, after      *)
(* another cookie, or percent-encoded), a cookie without "=", an empty      *)
(* value, another cookie's name, and two malformed escapes.                 *)
PlainCookies == {SessionCookieOf(sid) : sid \in Sids}

OddCookies ==
    { <<"a", "=", "1", ";", " ">> \o SessionCookieOf(Sid1),
      SessionCookieOf(<<"%", "7", "3", "%", "3", "1">>),
      SESSION_COOKIE,
      SessionCookieOf(<<>>),
      LEGACY_JWT_COOKIE \o <<"=">> \o Sid1,
      SessionCookieOf(<<"%">>),
      SessionCookieOf(<<"s", "%", "E", "0", "%", "4", "1">>) }

CookieHeaders == {Null} \cup PlainCookies \cup OddCookies

(* getCookie(request, SESSION_COOKIE), evaluated once per header *)
ParsedCookie == [h \in CookieHeaders |-> GetCookie(h, SESSION_COOKIE)]

----------------------------------------------------------------------------
(* auth.ts *)

(* usersKv.get(userKey) ?? "" *)
KvGet(store, userKey) ==
    IF userKey \in DOMAIN store THEN store[userKey] ELSE <<>>

(* A check that takes any entry for an enabled credential *)
IsAllowedUserKeyAnyValue(store, userKey) ==
    IF userKey = <<>> THEN FALSE
    ELSE userKey \in DOMAIN store

IsAllowedUserKey(store, userKey) ==
    IF userKey = <<>> THEN FALSE
    ELSE Trim(KvGet(store, userKey)) = <<"1">>

(* A comparison that keeps the session valid at expires_at itself *)
IsExpiredStrictly(row, t) == row.expires_at < t

(* row.expires_at <= Date.now() *)
IsExpired(row, t) == row.expires_at <= t

(* requireAuth: tag "auth" with {userKey, sessionId}, "null", or "throw";   *)
(* cleanup = TRUE when the expired row is deleted on the way.               *)
NoAuth == [tag |-> "null", userKey |-> <<>>, sessionId |-> <<>>, cleanup |-> FALSE]

(* A requireAuth that deletes the row of a session whose credential is not  *)
(* enabled                                                                  *)
SessionAuthDropsRevoked(c) ==
    IF c.tag = "throw" THEN [NoAuth EXCEPT !.tag = "throw"]
    ELSE IF c.tag = "null" THEN NoAuth
    ELSE IF c.val = <<>> THEN NoAuth
    ELSE IF c.val \notin DOMAIN sessions THEN NoAuth
    ELSE IF IsExpired(sessions[c.val], now)
         THEN [NoAuth EXCEPT !.sessionId = c.val, !.cleanup = TRUE]
    ELSE IF ~IsAllowedUserKey(kv, sessions[c.val].user_key)
         THEN [NoAuth EXCEPT !.sessionId = c.val, !.cleanup = TRUE]
    ELSE [tag |-> "auth", userKey |-> sessions[c.val].user_key,
          sessionId |-> c.val, cleanup |-> FALSE]

(* requireAuth from the session cookie c that getCookie returned *)
SessionAuth(c) ==
    IF c.tag = "throw" THEN [NoAuth EXCEPT !.tag = "throw"]
    ELSE IF c.tag = "null" THEN NoAuth
    ELSE IF c.val = <<>> THEN NoAuth
    ELSE IF c.val \notin DOMAIN sessions THEN NoAuth
    ELSE IF IsExpired(sessions[c.val], now)
         THEN [NoAuth EXCEPT !.sessionId = c.val, !.cleanup = TRUE]
    ELSE IF ~IsAllowedUserKey(kv, sessions[c.val].user_key) THEN NoAuth
    ELSE [tag |-> "auth", userKey |-> sessions[c.val].user_key,
          sessionId |-> c.val, cleanup |-> FALSE]

RequireAuth(header) == SessionAuth(ParsedCookie[header])

(* DELETE FROM sessions WHERE session_id = ? *)
DeleteSessionRow(table, sessionId) ==
    [s \in DOMAIN table \ {sessionId} |-> table[s]]

(* The sessions table after requireAuth has run *)
SessionsAfter(a) ==
    IF a.cleanup THEN DeleteSessionRow(sessions, a.sessionId) ELSE sessions

(* The sessions table once requireAuth has run on the request *)
SessionsAfterAuth(header) == SessionsAfter(RequireAuth(header))

(* A row that expires one day after its creation *)
SessionRowOneDay(userKey, t) ==
    [user_key |-> userKey, created_at |-> t, expires_at |-> t + 86400]

(* The row createSession inserts *)
SessionRow(userKey, t) ==
    [user_key |-> userKey, created_at |-> t, expires_at |-> t + SESSION_TTL_SECONDS]


----------------------------------------------------------------------------
(* Requests and the record of the last response *)

Routes == {"auth/logout", "generate/image", "video/start", "video/status",
           "history", "history/delete", "media", "other"}

(* Why a request is not authenticated, read off the stores before the       *)
(* request runs (independently of requireAuth's code).                      *)
WhyOf(header, c) ==
    IF header = Null THEN "nocookie"
    ELSE IF c.tag = "throw" THEN "malformed"
    ELSE IF c.tag = "null" THEN "nosession"
    ELSE IF c.val = <<>> THEN "nosession"
    ELSE IF c.val \notin DOMAIN sessions THEN "unknown"
    ELSE IF sessions[c.val].expires_at <= now THEN "expired"
    ELSE IF sessions[c.val].user_key \notin DOMAIN kv THEN "revoked"
    ELSE IF Trim(kv[sessions[c.val].user_key]) # <<"1">> THEN "revoked"
    ELSE "valid"

Why(header) == WhyOf(header, ParsedCookie[header])

NoResp ==
    [route |-> "none", auth |-> "none", why |-> "none", user |-> <<>>,
     sessionId |-> <<>>, target |-> "none", res |-> Json([none |-> TRUE], 0, <<>>)]

(* The record of a completed request *)
Answered(route, a, why, target, res) ==
    [route |-> route, auth |-> a.tag, why |-> why, user |-> a.userKey,
     sessionId |-> a.sessionId, target |-> target, res |-> res]

Answer(route, header, target, res) ==
    Answered(route, RequireAuth(header), Why(header), target, res)

(* The auth gate of routeApi: stop with a response, or let the request on   *)
(* to the routes.  A URIError raised by getCookie is caught by nothing.     *)
GateOf(a) ==
    IF a.tag = "throw" THEN [stop |-> TRUE, res |-> Uncaught("URI malformed")]
    ELSE IF a.tag = "null" THEN [stop |-> TRUE, res |-> ErrorJson(401, "Unauthorized")]
    ELSE [stop |-> FALSE, res |-> Json([none |-> TRUE], 0, <<>>)]

Gate(header) == GateOf(RequireAuth(header))

(* The guard of every route below the gate *)
Authenticated(header) == ~Gate(header).stop

----------------------------------------------------------------------------
(* db.ts: the history ledger *)

Ids == {"i1", "i2", "i3", "i4", "i5"}

(* A path segment naming no record ever created *)
GhostId == "i9"

(* SQLite's comparison of TEXT values (memcmp), on the texts of the model *)
TextRank(t) ==
    CASE t = "" -> 0 [] t = "i1" -> 1 [] t = "i2" -> 2 [] t = "i3" -> 3
      [] t = "i4" -> 4 [] t = "i5" -> 5 [] t = "i9" -> 6 [] OTHER -> 7

TextLess(a, b) == TextRank(a) < TextRank(b)

(* INSERT INTO history ...: width, height default to null *)
InsertHistory(table, row) ==
    [i \in DOMAIN table \cup {row.id} |-> IF i = row.id THEN row ELSE table[i]]

HasRow(table, id) == id \in DOMAIN table

(* SELECT * FROM history WHERE id = ?, for an id HasRow holds of *)
GetHistoryById(table, id) == table[id]

(* DELETE FROM history WHERE id = ? *)
DeleteRow(table, id) == [i \in DOMAIN table \ {id} |-> table[i]]

(* A delete that keeps the row and marks it *)
DeleteHistoryByIdMarksRow(table, id) ==
    IF HasRow(table, id) THEN [table EXCEPT ![id].kind = "deleted"] ELSE table

(* deleteHistoryById: read the row, delete it whoever owns it, return it *)
DeleteHistoryById(table, id) ==
    IF HasRow(table, id) THEN DeleteRow(table, id) ELSE table

(* ORDER BY created_at DESC, id DESC: a comes before b *)
Before(a, b) ==
    \/ a.created_at > b.created_at
    \/ a.created_at = b.created_at /\ TextLess(b.id, a.id)

RECURSIVE SortRows(_)
SortRows(rows) ==
    IF rows = {} THEN <<>>
    ELSE LET first == CHOOSE r \in rows : \A q \in rows \ {r} : Before(r, q)
         IN  <<first>> \o SortRows(rows \ {first})

(* A text of the query string: the numeral of n, the numeral of n + 1/2    *)
(* (such as "2.5"), or some other text                                      *)
Numeral(n) == [num |-> TRUE, n |-> n, half |-> FALSE, s |-> ""]
NumeralAndHalf(n) == [num |-> TRUE, n |-> n, half |-> TRUE, s |-> ""]
Word(s) == [num |-> FALSE, n |-> 0, half |-> FALSE, s |-> s]

(* Number(text): the empty text is 0, a non-numeric text is NaN.  A number  *)
(* is n, or n + 1/2 when half holds, or not finite.                         *)
ToNumber(t) ==
    IF t.num THEN [finite |-> TRUE, n |-> t.n, half |-> t.half]
    ELSE IF t.s = "" THEN [finite |-> TRUE, n |-> 0, half |-> FALSE]
    ELSE [finite |-> FALSE, n |-> 0, half |-> FALSE]

(* The order of the integer k and the finite number x: -1, 0, 1 *)
Compare(k, x) ==
    IF k < x.n THEN 0 - 1
    ELSE IF k > x.n THEN 1
    ELSE IF x.half THEN 0 - 1
    ELSE 0

(* A cursor parameter after cursor.split(":"): the number of pieces, the    *)
(* first (ts) and the second (id, "" when there is none).  NoCursor is an   *)
(* absent or empty parameter.                                               *)
Cursor(ts, id) == [pieces |-> IF id = "" THEN 1 ELSE 2, ts |-> ts, id |-> id]
NoCursor == [pieces |-> 0, ts |-> Word(""), id |-> ""]

(* `${last.created_at}:${last.id}` *)
CursorOf(row) == Cursor(Numeral(row.created_at), row.id)

(* cursor is given, Number(ts) is finite and id is a non-empty text *)
CursorUsable(cursor) ==
    /\ cursor.pieces >= 1
    /\ ToNumber(cursor.ts).finite
    /\ cursor.id # ""

Min(a, b) == IF a < b THEN a ELSE b
Max(a, b) == IF a > b THEN a ELSE b

(* Math.max(1, Math.min(50, limit)): both return NaN for NaN, and a number  *)
(* between the two ends stays as it is, its fraction included               *)
SafeLimit(limit) ==
    IF ~limit.finite THEN limit
    ELSE IF limit.n >= MaxLimit THEN ToNumber(Numeral(MaxLimit))
    ELSE IF limit.n < MinLimit THEN ToNumber(Numeral(MinLimit))
    ELSE limit

(* The selection without WHERE user_key = ? *)
SelectedAnyUser(table, userKey, cursor) ==
    { table[i] : i \in { j \in DOMAIN table :
        CursorUsable(cursor) =>
              \/ Compare(table[j].created_at, ToNumber(cursor.ts)) < 0
              \/ /\ Compare(table[j].created_at, ToNumber(cursor.ts)) = 0
                 /\ TextLess(table[j].id, cursor.id) } }

(* A selection that takes the row of the cursor again (id <= ?) *)
SelectedFromCursor(table, userKey, cursor) ==
    { table[i] : i \in { j \in DOMAIN table :
        /\ table[j].user_key = userKey
        /\ CursorUsable(cursor) =>
              \/ Compare(table[j].created_at, ToNumber(cursor.ts)) < 0
              \/ /\ Compare(table[j].created_at, ToNumber(cursor.ts)) = 0
                 /\ ~TextLess(cursor.id, table[j].id) } }

(* WHERE user_key = ? [AND (created_at < ? OR (created_at = ? AND id < ?))] *)
Selected(table, userKey, cursor) ==
    { table[i] : i \in { j \in DOMAIN table :
        /\ table[j].user_key = userKey
        /\ CursorUsable(cursor) =>
              \/ Compare(table[j].created_at, ToNumber(cursor.ts)) < 0
              \/ /\ Compare(table[j].created_at, ToNumber(cursor.ts)) = 0
                 /\ TextLess(table[j].id, cursor.id) } }

Take(seq, n) == SubSeq(seq, 1, Min(n, Len(seq)))

(* What D1 does with a statement whose LIMIT is bound to NaN or to a       *)
(* number with a fraction: it raises, or it returns the first `rows` of the *)
(* matching rows                                                            *)
Raises == [raise |-> TRUE, rows |-> 0]
Returns(k) == [raise |-> FALSE, rows |-> k]

(* A listing that fetches limit rows and takes a full page for more to come *)
ListHistoryNoLookahead(table, userKey, limit, cursor, db) ==
    LET rows == Take(SortRows(Selected(table, userKey, cursor)), SafeLimit(limit).n)
    IN  [raised |-> FALSE,
         items |-> rows,
         nextCursor |-> IF Len(rows) >= SafeLimit(limit).n /\ rows # <<>>
                        THEN CursorOf(rows[Len(rows)]) ELSE NoCursor]

(* listHistory.  rows.length > safeLimit is false for NaN, and             *)
(* rows.slice(0, safeLimit) takes the integer part of safeLimit, 0 for NaN. *)
ListHistory(table, userKey, limit, cursor, db) ==
    LET safeLimit == SafeLimit(limit)
        integral == safeLimit.finite /\ ~safeLimit.half
        rows == Take(SortRows(Selected(table, userKey, cursor)),
                     IF integral THEN safeLimit.n + 1 ELSE db.rows)
        hasMore == safeLimit.finite /\ Len(rows) > safeLimit.n
        items == Take(rows, IF safeLimit.finite THEN safeLimit.n ELSE 0)
    IN  [raised |-> ~integral /\ db.raise,
         items |-> items,
         nextCursor |-> IF hasMore /\ items # <<>> THEN CursorOf(items[Len(items)])
                        ELSE NoCursor]

----------------------------------------------------------------------------
(* The media store *)

ExtFromMime(mime) ==
    CASE mime = "image/png" -> "png"
      [] mime = "image/jpeg" -> "jpg"
      [] mime = "image/webp" -> "webp"
      [] mime = "video/mp4" -> "mp4"
      [] OTHER -> "bin"

(* A blob key without the id of the artifact *)
R2KeyWithoutId(userKey, id, mime) == <<userKey, "media", ExtFromMime(mime)>>

(* `${userKey}/${id}.${extFromMime(mime)}` *)
R2Key(userKey, id, mime) == <<userKey, id, ExtFromMime(mime)>>

(* MEDIA_BUCKET.put(key, bytes, {httpMetadata: {contentType}}) *)
BucketPut(store, key, bytes, mime) ==
    [k \in DOMAIN store \cup {key} |->
        IF k = key THEN [bytes |-> bytes, contentType |-> mime, etag |-> <<"etag", bytes>>]
        ELSE store[k]]

(* MEDIA_BUCKET.delete(key) *)
BucketDelete(store, key) == [k \in DOMAIN store \ {key} |-> store[k]]

(* The row of a new artifact *)
HistoryRow(id, userKey, kind, prompt, t, mime, extra) ==
    [id |-> id, user_key |-> userKey, kind |-> kind, prompt |-> prompt,
     created_at |-> t, r2_key |-> R2Key(userKey, id, mime), mime_type |-> mime,
     extra_json |-> extra]

(* How a requester stands to the record an id names *)
Target(userKey, id) ==
    IF ~HasRow(history, id) THEN "missing"
    ELSE IF history[id].user_key = userKey THEN "own"
    ELSE "foreign"

----------------------------------------------------------------------------
(* No generate request and no delete request in flight *)

IdleGen == [pc |-> "idle"]
IdleDel == [pc |-> "idle"]

(* A client that has not asked for a page yet *)
IdleWalk == [pc |-> "idle"]

(* No generateContent request built yet *)
NoParts == <<>>

(* No event stream being read *)
IdleSse == [pc |-> "idle"]

----------------------------------------------------------------------------
(* Environment: the clock and the administrator of the credential store *)

Tick(d) ==
    /\ ticks < MaxTicks
    /\ now' = now + d
    /\ ticks' = ticks + 1
    /\ UNCHANGED <<kv, sessions, usedSids, history, bucket, usedIds, videoOps,
                   provider, cache, upstreamCalls, gen, del, resp, vid, walk,
                   sent, sse>>

KvValues == {<<"1">>, <<"1", " ">>, <<"0">>}

(* The media bucket loses an object without the ledger knowing (an object  *)
(* deleted by hand or by a lifecycle rule): MEDIA_BUCKET.get returns null   *)
BlobLost(key) ==
    /\ key \in DOMAIN bucket
    /\ bucket' = BucketDelete(bucket, key)
    /\ UNCHANGED <<now, ticks, kv, sessions, usedSids, history, usedIds, videoOps,
                   provider, cache, upstreamCalls, gen, del, resp, vid, walk,
                   sent, sse>>

(* wrangler kv put <userKey> <value> *)
AdminPut(userKey, value) ==
    /\ kv' = [k \in DOMAIN kv \cup {userKey} |-> IF k = userKey THEN value ELSE kv[k]]
    /\ UNCHANGED <<now, ticks, sessions, usedSids, history, bucket, usedIds,
                   videoOps, provider, cache, upstreamCalls, gen, del, resp, vid, walk,
                   sent, sse>>

(* wrangler kv delete <userKey> *)
AdminDelete(userKey) ==
    /\ userKey \in DOMAIN kv
    /\ kv' = [k \in DOMAIN kv \ {userKey} |-> kv[k]]
    /\ UNCHANGED <<now, ticks, sessions, usedSids, history, bucket, usedIds,
                   videoOps, provider, cache, upstreamCalls, gen, del, resp, vid, walk,
                   sent, sse>>

----------------------------------------------------------------------------
(* routeApi: POST /api/auth/check, the auth gate, POST /api/auth/logout *)

(* The userKey texts a client posts; Null is a body without userKey or a    *)
(* body that is not JSON.                                                   *)
BodyKeys == {Null, <<>>, <<" ">>, Alice, Bob, <<" ">> \o Alice \o <<" ">>}

(* (body?.userKey ?? "").trim() *)
PostedUserKey(bodyKey) == Trim(IF bodyKey = Null THEN <<>> ELSE bodyKey)

CheckResponse(sessionId) ==
    Json([ok |-> TRUE], 200,
         << SetCookie(SESSION_COOKIE, sessionId, SESSION_TTL_SECONDS),
            SetCookie(LEGACY_JWT_COOKIE, <<>>, 0) >>)

(* A credential check that ends the sessions the user key already has *)
AuthCheckSingleSession(bodyKey) ==
    LET userKey == PostedUserKey(bodyKey)
        rec(res) == [route |-> "auth/check", auth |-> "none", why |-> "none",
                     user |-> userKey, sessionId |-> <<>>, target |-> "none",
                     res |-> res]
    IN  IF userKey = <<>>
        THEN /\ resp' = rec(ErrorJson(400, "Missing userKey"))
             /\ UNCHANGED <<sessions, usedSids>>
        ELSE IF ~IsAllowedUserKey(kv, userKey)
        THEN /\ resp' = rec(ErrorJson(401, "Invalid userKey"))
             /\ UNCHANGED <<sessions, usedSids>>
        ELSE \E sessionId \in Sids \ usedSids :
             /\ sessions' = [s \in {t \in DOMAIN sessions :
                                       sessions[t].user_key # userKey}
                                   \cup {sessionId} |->
                               IF s = sessionId THEN SessionRow(userKey, now)
                               ELSE sessions[s]]
             /\ usedSids' = usedSids \cup {sessionId}
             /\ resp' = rec(CheckResponse(sessionId))

AuthCheck(bodyKey) ==
    LET userKey == PostedUserKey(bodyKey)
        rec(res) == [route |-> "auth/check", auth |-> "none", why |-> "none",
                     user |-> userKey, sessionId |-> <<>>, target |-> "none",
                     res |-> res]
    IN  IF userKey = <<>>
        THEN /\ resp' = rec(ErrorJson(400, "Missing userKey"))
             /\ UNCHANGED <<sessions, usedSids>>
        ELSE IF ~IsAllowedUserKey(kv, userKey)
        THEN /\ resp' = rec(ErrorJson(401, "Invalid userKey"))
             /\ UNCHANGED <<sessions, usedSids>>
        ELSE \E sessionId \in Sids \ usedSids :
             /\ sessions' = [s \in DOMAIN sessions \cup {sessionId} |->
                               IF s = sessionId THEN SessionRow(userKey, now)
                               ELSE sessions[s]]
             /\ usedSids' = usedSids \cup {sessionId}
             /\ resp' = rec(CheckResponse(sessionId))

AuthCheckRequest(bodyKey) ==
    /\ AuthCheck(bodyKey)
    /\ UNCHANGED <<now, ticks, kv, history, bucket, usedIds, videoOps,
                   provider, cache, upstreamCalls, gen, del, vid, walk,
                   sent, sse>>

(* A gate whose 401 carries the directive that clears the session cookie *)
UnauthorizedClearsCookie(route, header) ==
    /\ ~Authenticated(header)
    /\ sessions' = SessionsAfterAuth(header)
    /\ resp' = Answer(route, header, "none",
                      [Gate(header).res EXCEPT
                         !.setCookie = <<SetCookie(SESSION_COOKIE, <<>>, 0)>>])
    /\ UNCHANGED <<now, ticks, kv, usedSids, history, bucket, usedIds, videoOps,
                   provider, cache, upstreamCalls, gen, del, vid, walk, sent, sse>>

(* Any request but POST auth/check that the gate stops *)
Unauthorized(route, header) ==
    /\ ~Authenticated(header)
    /\ sessions' = SessionsAfterAuth(header)
    /\ resp' = Answer(route, header, "none", Gate(header).res)
    /\ UNCHANGED <<now, ticks, kv, usedSids, history, bucket, usedIds, videoOps,
                   provider, cache, upstreamCalls, gen, del, vid, walk,
                   sent, sse>>

(* A destroySession that empties the table *)
DestroySessionAll(table, sessionId) ==
    [sessions |-> <<>>,
     clearSessionCookieHeader |-> SetCookie(SESSION_COOKIE, <<>>, 0)]

(* destroySession: the table it leaves and the directive it returns *)
DestroySession(table, sessionId) ==
    [sessions |-> DeleteSessionRow(table, sessionId),
     clearSessionCookieHeader |-> SetCookie(SESSION_COOKIE, <<>>, 0)]

Logout(header) ==
    /\ Authenticated(header)
    /\ sessions' = DestroySession(sessions, RequireAuth(header).sessionId).sessions
    /\ resp' = Answer("auth/logout", header, "none",
                      Json([ok |-> TRUE], 200,
                           <<DestroySession(sessions, RequireAuth(header).sessionId)
                                 .clearSessionCookieHeader>>))
    /\ UNCHANGED <<now, ticks, kv, usedSids, history, bucket, usedIds, videoOps,
                   provider, cache, upstreamCalls, gen, del, vid, walk,
                   sent, sse>>

(* A request that passes the gate and matches no route: errorJson(404) *)
NoRoute(header) ==
    /\ Authenticated(header)
    /\ resp' = Answer("other", header, "none", ErrorJson(404, "Not Found"))
    /\ UNCHANGED <<now, ticks, kv, sessions, usedSids, history, bucket, usedIds,
                   videoOps, provider, cache, upstreamCalls, gen, del, vid, walk,
                   sent, sse>>

----------------------------------------------------------------------------
(* routeApi: GET /api/history, DELETE /api/history/{id}, GET /api/media/{id} *)

NoLimit == [num |-> FALSE, n |-> 0, half |-> FALSE, s |-> "", absent |-> TRUE]

DefaultLimit == 20

(* Number(url.searchParams.get("limit") ?? "20") *)
LimitNumber(limit) == ToNumber(IF limit = NoLimit THEN Numeral(DefaultLimit) ELSE limit)

(* The history route below the gate; nothing catches what listHistory raises *)
HistoryOutcome(userKey, limit, cursor, db) ==
    LET page == ListHistory(history, userKey, LimitNumber(limit), cursor, db)
    IN  IF page.raised THEN Uncaught("D1_ERROR")
        ELSE Json([ok |-> TRUE, items |-> page.items,
                   nextCursor |-> page.nextCursor], 200, <<>>)

(* The route leaves alone what the client does with the page *)
HistoryList(header, limit, cursor, db) ==
    /\ Authenticated(header)
    /\ resp' = Answer("history", header, "none",
                      HistoryOutcome(RequireAuth(header).userKey, limit, cursor, db))
    /\ UNCHANGED <<now, ticks, kv, sessions, usedSids, history, bucket, usedIds,
                   videoOps, provider, cache, upstreamCalls, gen, del, vid,
                   sent, sse>>

(* The delete route below the gate, up to its first response or to the blob *)
(* delete: deleteHistoryById runs before the owner is compared.  respond is *)
(* FALSE when the request goes on to delete the blob.                       *)
DeleteOutcome(userKey, id) ==
    IF id = ""
    THEN [respond |-> TRUE, res |-> ErrorJson(400, "Missing id"), history |-> history]
    ELSE IF ~HasRow(history, id) \/ GetHistoryById(history, id).user_key # userKey
    THEN [respond |-> TRUE, res |-> ErrorJson(404, "Not found"),
          history |-> DeleteHistoryById(history, id)]
    ELSE [respond |-> FALSE, res |-> Json([ok |-> TRUE], 200, <<>>),
          history |-> DeleteHistoryById(history, id)]

DeleteStart(header, id) ==
    /\ Authenticated(header)
    /\ del.pc = "idle"
    /\ LET userKey == RequireAuth(header).userKey
           out == DeleteOutcome(userKey, id)
           answer == Answer("history/delete", header, Target(userKey, id), out.res)
       IN  /\ history' = out.history
           /\ resp' = IF out.respond THEN answer ELSE resp
           /\ del' = IF out.respond THEN del
                     ELSE [pc |-> "blob", key |-> GetHistoryById(history, id).r2_key,
                           answer |-> answer]
    /\ UNCHANGED <<now, ticks, kv, sessions, usedSids, bucket, usedIds,
                   videoOps, provider, cache, upstreamCalls, gen, vid, walk,
                   sent, sse>>

(* await env.MEDIA_BUCKET.delete(row.r2_key); return json({ok: true}) *)
DeleteBlob ==
    /\ del.pc = "blob"
    /\ bucket' = BucketDelete(bucket, del.key)
    /\ resp' = del.answer
    /\ del' = IdleDel
    /\ UNCHANGED <<now, ticks, kv, sessions, usedSids, history, usedIds,
                   videoOps, provider, cache, upstreamCalls, gen, vid, walk,
                   sent, sse>>

NoTag == <<"none">>

(* The response of the media route for a blob *)
MediaResponse(status, obj, mime) ==
    [status |-> status,
     body |-> IF status = 200 THEN [bytes |-> obj.bytes] ELSE [bytes |-> <<>>],
     setCookie |-> <<>>, contentType |-> mime,
     cacheControl |-> "public, max-age=31536000, immutable", etag |-> obj.etag]

(* A media route that looks into the edge cache before it looks for the row *)
MediaOutcomeCacheFirst(userKey, id, range, ifNoneMatch) ==
    IF id \in DOMAIN cache THEN [res |-> cache[id], cache |-> cache]
    ELSE IF ~HasRow(history, id) \/ GetHistoryById(history, id).user_key # userKey
    THEN [res |-> ErrorJson(404, "Not found"), cache |-> cache]
    ELSE IF GetHistoryById(history, id).r2_key \notin DOMAIN bucket
    THEN [res |-> ErrorJson(404, "Not found"), cache |-> cache]
    ELSE [res |-> MediaResponse(200, bucket[GetHistoryById(history, id).r2_key],
                                GetHistoryById(history, id).mime_type),
          cache |-> [i \in DOMAIN cache \cup {id} |->
                       IF i = id
                       THEN MediaResponse(200,
                                bucket[GetHistoryById(history, id).r2_key],
                                GetHistoryById(history, id).mime_type)
                       ELSE cache[i]]]

(* A media route that serves any record there is, the requester's or not *)
MediaOutcomeAnyOwner(userKey, id, range, ifNoneMatch) ==
    LET same(res) == [res |-> res, cache |-> cache]
    IN  IF id = "" THEN same(ErrorJson(400, "Missing id"))
        ELSE IF ~HasRow(history, id) THEN same(ErrorJson(404, "Not found"))
        ELSE IF ~range /\ id \in DOMAIN cache THEN same(cache[id])
        ELSE LET row == GetHistoryById(history, id)
             IN  IF row.r2_key \notin DOMAIN bucket
                 THEN same(ErrorJson(404, "Not found"))
                 ELSE IF ifNoneMatch = bucket[row.r2_key].etag
                 THEN same(MediaResponse(304, bucket[row.r2_key], row.mime_type))
                 ELSE LET res == MediaResponse(200, bucket[row.r2_key], row.mime_type)
                      IN  [res |-> res,
                           cache |-> IF range THEN cache
                                     ELSE [i \in DOMAIN cache \cup {id} |->
                                             IF i = id THEN res ELSE cache[i]]]

(* The media route below the gate: its response and the cache it leaves *)
MediaOutcome(userKey, id, range, ifNoneMatch) ==
    LET same(res) == [res |-> res, cache |-> cache]
    IN  IF id = "" THEN same(ErrorJson(400, "Missing id"))
        ELSE IF ~HasRow(history, id) \/ GetHistoryById(history, id).user_key # userKey
        THEN same(ErrorJson(404, "Not found"))
        ELSE IF ~range /\ id \in DOMAIN cache THEN same(cache[id])
        ELSE LET row == GetHistoryById(history, id)
             IN  IF row.r2_key \notin DOMAIN bucket
                 THEN same(ErrorJson(404, "Not found"))
                 ELSE IF ifNoneMatch = bucket[row.r2_key].etag
                 THEN same(MediaResponse(304, bucket[row.r2_key], row.mime_type))
                 ELSE LET res == MediaResponse(200, bucket[row.r2_key], row.mime_type)
                      IN  [res |-> res,
                           cache |-> IF range THEN cache
                                     ELSE [i \in DOMAIN cache \cup {id} |->
                                             IF i = id THEN res ELSE cache[i]]]

MediaGet(header, id, range, ifNoneMatch) ==
    /\ Authenticated(header)
    /\ resp' = Answer("media", header, Target(RequireAuth(header).userKey, id),
                      MediaOutcome(RequireAuth(header).userKey, id, range,
                                   ifNoneMatch).res)
    /\ cache' = MediaOutcome(RequireAuth(header).userKey, id, range, ifNoneMatch).cache
    /\ UNCHANGED <<now, ticks, kv, sessions, usedSids, history, bucket, usedIds,
                   videoOps, provider, upstreamCalls, gen, del, vid, walk,
                   sent, sse>>

----------------------------------------------------------------------------
(* gemini.ts: the image responses of the provider *)

TextPart(t) == [kind |-> "text", text |-> t, data |-> "", mimeType |-> ""]
InlinePart(d, m) == [kind |-> "inlineData", text |-> "", data |-> d, mimeType |-> m]

(* A GeminiResponse: its candidates; a candidate may lack content *)
Candidate(parts) == [content |-> TRUE, parts |-> parts, finishReason |-> ""]
Refused(reason) == [content |-> FALSE, parts |-> <<>>, finishReason |-> reason]

NoText == "<null>"
BlockedText == "The AI response was blocked or did not contain content."
NoImageText == "The AI did not generate an image. Please try a different prompt."

(* textResponse += ` (Reason: ${finishReason})` *)
BlockedBecause(reason) ==
    CASE reason = "SAFETY" ->
            "The AI response was blocked or did not contain content. (Reason: SAFETY)"
      [] OTHER ->
            "The AI response was blocked or did not contain content. (Reason: OTHER)"

(* The loop over candidates[0].content.parts: the last inlineData, the last *)
(* non-empty text                                                           *)
RECURSIVE ScanParts(_, _)
ScanParts(parts, acc) ==
    IF parts = <<>> THEN acc
    ELSE LET part == Head(parts)
         IN  ScanParts(Tail(parts),
                IF part.kind = "inlineData"
                THEN [acc EXCEPT !.newImageBase64 = part.data,
                                 !.newImageMimeType = part.mimeType]
                ELSE IF part.text # ""
                THEN [acc EXCEPT !.textResponse = part.text]
                ELSE acc)

(* An extraction that leaves the text note null when the provider sent none *)
ExtractImageResponseNoDefault(candidates) ==
    IF candidates # <<>> /\ candidates[1].content
    THEN ScanParts(candidates[1].parts,
                   [newImageBase64 |-> "", newImageMimeType |-> "",
                    textResponse |-> NoText])
    ELSE [newImageBase64 |-> "", newImageMimeType |-> "", textResponse |-> BlockedText]

ExtractImageResponse(candidates) ==
    LET empty == [newImageBase64 |-> "", newImageMimeType |-> "", textResponse |-> NoText]
        got == IF candidates # <<>> /\ candidates[1].content
               THEN ScanParts(candidates[1].parts, empty)
               ELSE [empty EXCEPT !.textResponse =
                        IF candidates # <<>> /\ candidates[1].finishReason # ""
                        THEN BlockedBecause(candidates[1].finishReason)
                        ELSE BlockedText]
    IN  IF got.newImageBase64 = ""
        THEN [newImageBase64 |-> "", newImageMimeType |-> "",
              textResponse |-> IF got.textResponse = NoText THEN NoImageText
                               ELSE got.textResponse]
        ELSE got

(* A result the orchestrator persists: !result.newImageBase64 ||            *)
(* !result.newImageMimeType is false                                        *)
HasImage(result) == result.newImageBase64 # "" /\ result.newImageMimeType # ""

(* The 200 bodies the provider answers generateContent with *)
ImageBody == <<Candidate(<<InlinePart("d1", "image/png")>>)>>
NotedImageBody == <<Candidate(<<TextPart("t"), InlinePart("d1", "image/gif")>>)>>
TextBody == <<Candidate(<<TextPart("t")>>)>>
BlockedBody == <<Refused("SAFETY")>>

UpstreamError == "Gemini generateContent failed"

----------------------------------------------------------------------------
(* gemini.ts: the request geminiEditImage builds *)

(* An ImageInputBase64, and opts.mask left undefined *)
ImageInput(base64, mimeType) == [base64 |-> base64, mimeType |-> mimeType]
NoMask == ImageInput("<undefined>", "<undefined>")

(* Parts that always end with the text part, the mask after the images *)
EditPartsTextLast(prompt, images, mask) ==
    [k \in 1..Len(images) |-> InlinePart(images[k].base64, images[k].mimeType)]
    \o (IF mask # NoMask THEN <<InlinePart(mask.base64, mask.mimeType)>> ELSE <<>>)
    \o <<TextPart(prompt)>>

(* parts: with a mask [textPart, ...imageParts, mask], otherwise            *)
(* [...imageParts, textPart]                                                *)
EditParts(prompt, images, mask) ==
    LET imageParts == [k \in 1..Len(images) |->
                         InlinePart(images[k].base64, images[k].mimeType)]
        textPart == TextPart(prompt)
    IN  IF mask # NoMask
        THEN <<textPart>> \o imageParts \o <<InlinePart(mask.base64, mask.mimeType)>>
        ELSE imageParts \o <<textPart>>

(* geminiEditImage is called and builds contents[0].parts of its request *)
EditImage(prompt, images, mask) ==
    /\ sent' = EditParts(prompt, images, mask)
    /\ UNCHANGED <<now, ticks, kv, sessions, usedSids, history, bucket, usedIds,
                   videoOps, provider, cache, upstreamCalls, gen, del, resp, vid,
                   walk, sse>>

----------------------------------------------------------------------------
(* routeApi: POST /api/generate/image *)

(* decodeBase64ToUint8Array / encodeUint8ArrayToBase64 (crypto.ts) *)
DecodeBase64(b64) == <<"bytes", b64>>
EncodeBase64(bytes) == bytes[2]

DataUrlRef == [kind |-> "dataUrl", mediaId |-> ""]
MediaRef(id) == [kind |-> "mediaId", mediaId |-> id]
NoRef == [kind |-> "none", mediaId |-> ""]

(* A resolution that does not compare row.user_key with the requester *)
RefResolvesAnyOwner(userKey, ref) ==
    \/ ref.kind = "dataUrl"
    \/ /\ ref.kind = "mediaId"
       /\ HasRow(history, ref.mediaId)
       /\ GetHistoryById(history, ref.mediaId).r2_key \in DOMAIN bucket

(* clientRefToBase64 resolves: a data URL, or the blob of a record of the   *)
(* requester; otherwise it throws "Media not found"                         *)
RefResolves(userKey, ref) ==
    \/ ref.kind = "dataUrl"
    \/ /\ ref.kind = "mediaId"
       /\ HasRow(history, ref.mediaId)
       /\ GetHistoryById(history, ref.mediaId).user_key = userKey
       /\ GetHistoryById(history, ref.mediaId).r2_key \in DOMAIN bucket

(* The {base64, mimeType} clientRefToBase64 returns for a ref that resolves *)
ClientRefToBase64(ref) ==
    IF ref.kind = "dataUrl" THEN [base64 |-> "inline", mimeType |-> "image/png"]
    ELSE LET row == GetHistoryById(history, ref.mediaId)
         IN  [base64 |-> EncodeBase64(bucket[row.r2_key].bytes),
              mimeType |-> row.mime_type]

(* The count of a request body: absent, the integer n, n + 1/2, or not a   *)
(* number                                                                   *)
NoCount == [given |-> FALSE, finite |-> FALSE, n |-> 0, half |-> FALSE]
CountOf(n) == [given |-> TRUE, finite |-> TRUE, n |-> n, half |-> FALSE]
CountAndHalf(n) == [given |-> TRUE, finite |-> TRUE, n |-> n, half |-> TRUE]
BadCount == [given |-> TRUE, finite |-> FALSE, n |-> 0, half |-> FALSE]

(* Math.floor of the number n, or n + 1/2 *)
Floor(x) == x.n

(* The count without Math.max(1, ...) *)
ClampCountNoFloor(count) ==
    LET requested == IF ~count.given THEN 1 ELSE IF count.finite THEN Floor(count) ELSE 1
    IN  Min(MaxCount, requested)

(* Math.max(1, Math.min(5, Number.isFinite(c) ? Math.floor(c) : 1)) *)
ClampCount(count) ==
    LET requested == IF ~count.given THEN 1 ELSE IF count.finite THEN Floor(count) ELSE 1
    IN  Max(MinCount, Min(MaxCount, requested))

Emit(events, e) == Append(events, e)

(* `/api/media/${encodeURIComponent(id)}` *)
MediaUrl(id) == <<"/api/media/", id>>

(* result.textResponse ? JSON.stringify({textResponse}) : null *)
ExtraJson(text) == IF text = NoText \/ text = "" THEN NoText ELSE text

(* The events of the end of the streaming loop: after the last iteration    *)
(* "done" follows at once and the stream is closed.                         *)
AfterIteration(g) ==
    IF g.i < g.count THEN [g EXCEPT !.pc = "call"]
    ELSE IF g.stream
    THEN [g EXCEPT !.pc = "closed",
                   !.events = Emit(g.events, [event |-> "done", ok |-> g.produced > 0,
                                               produced |-> g.produced,
                                               text |-> g.lastText])]
    ELSE [g EXCEPT !.pc = "closed"]

(* A catch that lets "done" follow the error event *)
FailedAndDone(g, message) ==
    IF g.stream
    THEN [g EXCEPT !.pc = "closed", !.failed = TRUE,
                   !.events = Emit(Emit(g.events, [event |-> "error", message |-> message]),
                                   [event |-> "done", ok |-> g.produced > 0,
                                    produced |-> g.produced, text |-> g.lastText])]
    ELSE [g EXCEPT !.pc = "closed", !.failed = TRUE]

(* catch (e): the error event, then close; in batch mode the error leaves   *)
(* routeApi uncaught                                                        *)
Failed(g, message) ==
    IF g.stream
    THEN [g EXCEPT !.pc = "closed", !.failed = TRUE,
                   !.events = Emit(g.events, [event |-> "error", message |-> message])]
    ELSE [g EXCEPT !.pc = "closed", !.failed = TRUE]

(* A batch response that reports success whatever was produced *)
BatchResponseAlwaysOk(g) == Json([ok |-> TRUE, items |-> g.items], 200, <<>>)

(* The response of a batch request that ran to its end *)
BatchResponse(g) ==
    IF g.items = <<>> THEN Json([ok |-> FALSE, text |-> g.lastText], 200, <<>>)
    ELSE Json([ok |-> TRUE, items |-> g.items], 200, <<>>)

(* resp after a step of the request: batch mode answers when it ends *)
RespAfter(g, message) ==
    IF g.stream \/ g.pc # "closed" THEN resp
    ELSE IF g.failed THEN [g.answer EXCEPT !.res = Uncaught(message)]
    ELSE [g.answer EXCEPT !.res = BatchResponse(g)]

StreamResponse == [status |-> 200, body |-> [stream |-> TRUE], setCookie |-> <<>>]

(* A validation that does not resolve the mask *)
GenRejectionSkipsMask(userKey, trimmed, action, images, mask) ==
    IF trimmed = <<>>
    THEN [stop |-> TRUE, res |-> ErrorJson(400, "Missing prompt")]
    ELSE IF action = "edit" /\ images = <<>>
    THEN [stop |-> TRUE, res |-> ErrorJson(400, "Missing images for edit")]
    ELSE IF action = "edit" /\ \E k \in 1..Len(images) : ~RefResolves(userKey, images[k])
    THEN [stop |-> TRUE, res |-> Uncaught("Media not found")]
    ELSE [stop |-> FALSE, res |-> StreamResponse]

(* A validation that lets an edit without source images through *)
GenRejectionAllowsNoImages(userKey, trimmed, action, images, mask) ==
    IF trimmed = <<>>
    THEN [stop |-> TRUE, res |-> ErrorJson(400, "Missing prompt")]
    ELSE IF /\ action = "edit"
            /\ \/ \E k \in 1..Len(images) : ~RefResolves(userKey, images[k])
               \/ mask.kind # "none" /\ ~RefResolves(userKey, mask)
    THEN [stop |-> TRUE, res |-> Uncaught("Media not found")]
    ELSE [stop |-> FALSE, res |-> StreamResponse]

(* The response that ends a generate/edit request before any upstream call: *)
(* a missing prompt, an edit without images, a reference that does not      *)
(* resolve (clientRefToBase64 throws, uncaught)                             *)
GenRejection(userKey, trimmed, action, images, mask) ==
    IF trimmed = <<>>
    THEN [stop |-> TRUE, res |-> ErrorJson(400, "Missing prompt")]
    ELSE IF action = "edit" /\ images = <<>>
    THEN [stop |-> TRUE, res |-> ErrorJson(400, "Missing images for edit")]
    ELSE IF /\ action = "edit"
            /\ \/ \E k \in 1..Len(images) : ~RefResolves(userKey, images[k])
               \/ mask.kind # "none" /\ ~RefResolves(userKey, mask)
    THEN [stop |-> TRUE, res |-> Uncaught("Media not found")]
    ELSE [stop |-> FALSE, res |-> StreamResponse]

(* The request up to its first upstream call: validation, the count, the    *)
(* inputs of an edit, and in streaming mode the response and "start".       *)
GenStart(header, prompt, action, count, bodyStream, acceptStream, images, mask) ==
    /\ Authenticated(header)
    /\ gen.pc \in {"idle", "closed"}
    /\ LET userKey == RequireAuth(header).userKey
           trimmed == Trim(IF prompt = Null THEN <<>> ELSE prompt)
           wantStream == bodyStream \/ acceptStream
           answer(res) == Answer("generate/image", header, "none", res)
           rejection == GenRejection(userKey, trimmed, action, images, mask)
       IN  IF rejection.stop
           THEN resp' = answer(rejection.res) /\ gen' = gen
           ELSE /\ upstreamCalls + ClampCount(count) <= MaxCalls
                /\ ClampCount(count) <= Cardinality(Ids \ usedIds)
                /\ gen' = [pc |-> "call", stream |-> wantStream, failed |-> FALSE,
                           answer |-> answer(StreamResponse),
                           userKey |-> userKey, prompt |-> trimmed, action |-> action,
                           asked |-> count, returned |-> <<>>,
                           count |-> ClampCount(count), i |-> 0, produced |-> 0,
                           lastText |-> NoText, items |-> <<>>,
                           id |-> "", result |-> ExtractImageResponse(<<>>),
                           events |-> IF wantStream
                                      THEN <<[event |-> "start", ok |-> TRUE,
                                              requested |-> ClampCount(count)]>>
                                      ELSE <<>>]
                /\ resp' = IF wantStream THEN answer(StreamResponse) ELSE resp
    /\ UNCHANGED <<now, ticks, kv, sessions, usedSids, history, bucket, usedIds,
                   videoOps, provider, cache, upstreamCalls, del, vid, walk,
                   sent, sse>>

(* The ids of the records the request has committed so far: those of its   *)
(* item events when streaming, of its items otherwise                       *)
ProducedIds(g) ==
    {g.items[k].mediaId : k \in DOMAIN g.items}
    \cup {g.events[k].mediaId : k \in {j \in DOMAIN g.events : g.events[j].event = "item"}}

(* A failed upstream call that undoes the request: the rows and the blobs   *)
(* of its earlier iterations are deleted                                    *)
GenCallFailsRollsBack ==
    /\ gen.pc = "call"
    /\ upstreamCalls' = upstreamCalls + 1
    /\ gen' = Failed(gen, UpstreamError)
    /\ resp' = RespAfter(gen', UpstreamError)
    /\ history' = [i \in DOMAIN history \ ProducedIds(gen) |-> history[i]]
    /\ bucket' = [k \in {history[i].r2_key : i \in DOMAIN history \ ProducedIds(gen)}
                    |-> bucket[k]]
    /\ UNCHANGED <<now, ticks, kv, sessions, usedSids, usedIds,
                   videoOps, provider, cache, del, vid, walk, sent, sse>>

(* An upstream call that fails and is made again *)
GenCallRetried ==
    /\ gen.pc = "call"
    /\ upstreamCalls' = upstreamCalls + 1
    /\ UNCHANGED <<now, ticks, kv, sessions, usedSids, history, bucket, usedIds,
                   videoOps, provider, cache, gen, del, resp, vid, walk,
                   sent, sse>>

(* Iteration i, the upstream call fails: HTTP status not ok *)
GenCallFails ==
    /\ gen.pc = "call"
    /\ upstreamCalls' = upstreamCalls + 1
    /\ gen' = Failed(gen, UpstreamError)
    /\ resp' = RespAfter(gen', UpstreamError)
    /\ UNCHANGED <<now, ticks, kv, sessions, usedSids, history, bucket, usedIds,
                   videoOps, provider, cache, del, vid, walk, sent, sse>>

(* Iteration i, the upstream call returns: skip an empty result, or draw    *)
(* the id of the new artifact                                               *)
GenCall(body, id) ==
    /\ gen.pc = "call"
    /\ upstreamCalls' = upstreamCalls + 1
    /\ LET result == ExtractImageResponse(body)
           noted == [gen EXCEPT !.lastText = IF result.textResponse # NoText
                                             THEN result.textResponse ELSE @,
                                !.result = result,
                                !.returned = Append(@, body)]
       IN  IF ~HasImage(result)
           THEN /\ gen' = AfterIteration(
                            [noted EXCEPT !.i = @ + 1,
                               !.events = IF gen.stream
                                          THEN Emit(@, [event |-> "skip", index |-> gen.i,
                                                        text |-> result.textResponse])
                                          ELSE @])
                /\ usedIds' = usedIds
           ELSE /\ id \in Ids \ usedIds
                /\ gen' = [noted EXCEPT !.pc = "put", !.id = id]
                /\ usedIds' = usedIds \cup {id}
    /\ resp' = RespAfter(gen', "")
    /\ UNCHANGED <<now, ticks, kv, sessions, usedSids, history, bucket,
                   videoOps, provider, cache, del, vid, walk, sent, sse>>

(* An iteration that inserts the row without having put the blob *)
GenPutSkipped ==
    /\ gen.pc = "put"
    /\ gen' = [gen EXCEPT !.pc = "insert"]
    /\ UNCHANGED <<now, ticks, kv, sessions, usedSids, history, bucket, usedIds,
                   videoOps, provider, cache, upstreamCalls, del, resp, vid, walk,
                   sent, sse>>

(* await env.MEDIA_BUCKET.put(r2Key, bytes, ...) *)
GenPut ==
    /\ gen.pc = "put"
    /\ bucket' = BucketPut(bucket, R2Key(gen.userKey, gen.id, gen.result.newImageMimeType),
                           DecodeBase64(gen.result.newImageBase64),
                           gen.result.newImageMimeType)
    /\ gen' = [gen EXCEPT !.pc = "insert"]
    /\ UNCHANGED <<now, ticks, kv, sessions, usedSids, history, usedIds,
                   videoOps, provider, cache, upstreamCalls, del, resp, vid, walk,
                   sent, sse>>

(* await insertHistory(...); produced++ / items.push; the item event *)
GenInsert ==
    /\ gen.pc = "insert"
    /\ history' = InsertHistory(history,
                     HistoryRow(gen.id, gen.userKey, "image", gen.prompt, now,
                                gen.result.newImageMimeType,
                                ExtraJson(gen.result.textResponse)))
    /\ LET item == [mediaId |-> gen.id, mediaUrl |-> MediaUrl(gen.id),
                    mimeType |-> gen.result.newImageMimeType,
                    text |-> gen.result.textResponse]
           event == [event |-> "item", mediaId |-> gen.id,
                     mediaUrl |-> MediaUrl(gen.id),
                     mimeType |-> gen.result.newImageMimeType,
                     text |-> gen.result.textResponse, index |-> gen.i]
       IN  gen' = AfterIteration(
                    [gen EXCEPT !.i = @ + 1, !.produced = @ + 1,
                                !.items = IF gen.stream THEN @ ELSE Append(@, item),
                                !.events = IF gen.stream THEN Emit(@, event) ELSE @])
    /\ resp' = RespAfter(gen', "")
    /\ UNCHANGED <<now, ticks, kv, sessions, usedSids, bucket, usedIds,
                   videoOps, provider, cache, upstreamCalls, del, vid, walk,
                   sent, sse>>

(* The bucket or the database rejects the write of iteration i *)
GenStoreFails ==
    /\ gen.pc \in {"put", "insert"}
    /\ gen' = Failed(gen, "storage error")
    /\ resp' = RespAfter(gen', "storage error")
    /\ UNCHANGED <<now, ticks, kv, sessions, usedSids, history, bucket, usedIds,
                   videoOps, provider, cache, upstreamCalls, del, vid, walk,
                   sent, sse>>

----------------------------------------------------------------------------
(* routeApi: POST /api/video/start, GET /api/video/status *)

OpNames == {"op1", "op2"}

(* An operation name the provider never returned *)
GhostOp == "op9"

NoName == ""

(* USERS_KV.put(`videoop:${name}`, {userKey, prompt}, {expirationTtl}): the  *)
(* value of the entry put at time t, with the time the entry expires at     *)
Handle(userKey, prompt, t) ==
    [userKey |-> userKey, prompt |-> prompt, expiration |-> t + HANDLE_TTL_SECONDS]

(* USERS_KV.get returns the entry: it is there and has not expired *)
HandleLive(name) ==
    name \in DOMAIN videoOps /\ now < videoOps[name].expiration

(* A video start that answers without persisting the handle *)
VideoStartOutcomeNoHandle(userKey, prompt, image, outcome, name) ==
    IF Trim(IF prompt = Null THEN <<>> ELSE prompt) = <<>> \/ outcome # "named"
    THEN [res |-> ErrorJson(400, "Missing prompt"), called |-> FALSE,
          named |-> FALSE, videoOps |-> videoOps]
    ELSE [res |-> Json([ok |-> TRUE, operationName |-> name], 200, <<>>),
          called |-> TRUE, named |-> TRUE, videoOps |-> videoOps]

(* A video start that stores a handle whatever the provider answered *)
VideoStartOutcomeAlwaysStores(userKey, prompt, image, outcome, name) ==
    LET trimmed == Trim(IF prompt = Null THEN <<>> ELSE prompt)
    IN  IF trimmed = <<>>
        THEN [res |-> ErrorJson(400, "Missing prompt"), called |-> FALSE,
              named |-> FALSE, videoOps |-> videoOps]
        ELSE [res |-> IF outcome = "named"
                      THEN Json([ok |-> TRUE, operationName |-> name], 200, <<>>)
                      ELSE IF outcome = "fails"
                      THEN Uncaught("Failed to start video generation")
                      ELSE Uncaught("Failed to get operation name"),
              called |-> TRUE, named |-> outcome = "named",
              videoOps |-> [o \in DOMAIN videoOps \cup {name} |->
                              IF o = name THEN Handle(userKey, trimmed, now)
                              ELSE videoOps[o]]]

(* The video start route below the gate.  outcome is what geminiVideoStart  *)
(* meets: the HTTP call fails, the body has no name, or it names the new    *)
(* operation `name`.  called: the provider was called.                      *)
VideoStartOutcome(userKey, prompt, image, outcome, name) ==
    LET trimmed == Trim(IF prompt = Null THEN <<>> ELSE prompt)
        early(res) == [res |-> res, called |-> FALSE, named |-> FALSE,
                       videoOps |-> videoOps]
    IN  IF trimmed = <<>> THEN early(ErrorJson(400, "Missing prompt"))
        ELSE IF image.kind # "none" /\ ~RefResolves(userKey, image)
        THEN early(Uncaught("Media not found"))
        ELSE IF outcome = "fails"
        THEN [early(Uncaught("Failed to start video generation")) EXCEPT !.called = TRUE]
        ELSE IF outcome = "unnamed" \/ name = NoName
        THEN [early(Uncaught("Failed to get operation name")) EXCEPT !.called = TRUE]
        ELSE [res |-> Json([ok |-> TRUE, operationName |-> name], 200, <<>>),
              called |-> TRUE, named |-> TRUE,
              videoOps |-> [o \in DOMAIN videoOps \cup {name} |->
                              IF o = name THEN Handle(userKey, trimmed, now)
                              ELSE videoOps[o]]]

VideoStart(header, prompt, image, outcome) ==
    /\ Authenticated(header)
    /\ \E name \in IF outcome = "named" THEN OpNames \ DOMAIN provider ELSE {NoName} :
          LET out == VideoStartOutcome(RequireAuth(header).userKey, prompt, image,
                                       outcome, name)
          IN  /\ out.called => upstreamCalls < MaxCalls
              /\ upstreamCalls' = IF out.called THEN upstreamCalls + 1 ELSE upstreamCalls
              /\ provider' = IF out.named
                             THEN [o \in DOMAIN provider \cup {name} |->
                                     IF o = name THEN "running" ELSE provider[o]]
                             ELSE provider
              /\ videoOps' = out.videoOps
              /\ resp' = Answer("video/start", header, "none", out.res)
    /\ UNCHANGED <<now, ticks, kv, sessions, usedSids, history, bucket, usedIds,
                   cache, gen, del, vid, walk, sent, sse>>

(* The provider's job ends: with a video, with an error, or done without a  *)
(* download link                                                            *)
ProviderEnds(name, state) ==
    /\ name \in DOMAIN provider
    /\ provider[name] = "running"
    /\ provider' = [provider EXCEPT ![name] = state]
    /\ UNCHANGED <<now, ticks, kv, sessions, usedSids, history, bucket, usedIds,
                   videoOps, cache, upstreamCalls, gen, del, resp, vid, walk,
                   sent, sse>>

(* How a requester stands to the handle an operation name has *)
OpTarget(userKey, name) ==
    IF ~HandleLive(name) THEN "missing"
    ELSE IF videoOps[name].userKey = userKey THEN "own"
    ELSE "foreign"

VideoMime == "video/mp4"

NoId == ""

(* The requests to GET /api/video/status that can be in flight together *)
Slots == {"r1", "r2"}

IdleVid == [s \in Slots |-> [pc |-> "idle"]]

(* The video status route from the gate to the handle: a missing name, a    *)
(* handle that is absent or another user's, or the handle read              *)
HandleOutcome(userKey, name) ==
    IF name = "" THEN [stop |-> TRUE, res |-> ErrorJson(400, "Missing name")]
    ELSE IF ~HandleLive(name) \/ videoOps[name].userKey # userKey
    THEN [stop |-> TRUE, res |-> ErrorJson(404, "Operation not found")]
    ELSE [stop |-> FALSE, res |-> Json([none |-> TRUE], 0, <<>>)]

ProviderMessage == "provider error"

(* A status route that does not look at status.error *)
StatusOutcomeIgnoresError(state, statusOk) ==
    IF ~statusOk
    THEN [stop |-> TRUE, res |-> Uncaught("Failed to check video status")]
    ELSE IF state = "running"
    THEN [stop |-> TRUE, res |-> Json([ok |-> TRUE, done |-> FALSE], 200, <<>>)]
    ELSE IF state = "nolink"
    THEN [stop |-> TRUE, res |-> ErrorJson(500, "No download link found")]
    ELSE [stop |-> FALSE, res |-> Json([none |-> TRUE], 0, <<>>)]

(* What the route answers once geminiVideoStatus returned, unless the job   *)
(* is done with a download link                                             *)
StatusOutcome(state, statusOk) ==
    IF ~statusOk
    THEN [stop |-> TRUE, res |-> Uncaught("Failed to check video status")]
    ELSE IF state = "running"
    THEN [stop |-> TRUE, res |-> Json([ok |-> TRUE, done |-> FALSE], 200, <<>>)]
    ELSE IF state = "error"
    THEN [stop |-> TRUE,
          res |-> Json([ok |-> TRUE, done |-> TRUE, error |-> ProviderMessage],
                       200, <<>>)]
    ELSE IF state = "nolink"
    THEN [stop |-> TRUE, res |-> ErrorJson(500, "No download link found")]
    ELSE [stop |-> FALSE, res |-> Json([none |-> TRUE], 0, <<>>)]

(* A status request arrives and reads the handle (USERS_KV.get) *)
VideoStatusStart(s, header, name) ==
    /\ Authenticated(header)
    /\ vid[s].pc = "idle"
    /\ vid' = IF HandleOutcome(RequireAuth(header).userKey, name).stop THEN vid
              ELSE [vid EXCEPT ![s] =
                      [pc |-> "status", name |-> name, opMeta |-> videoOps[name],
                       answer |-> Answer("video/status", header, "own",
                                         Json([none |-> TRUE], 0, <<>>))]]
    /\ resp' = IF HandleOutcome(RequireAuth(header).userKey, name).stop
               THEN Answer("video/status", header,
                           OpTarget(RequireAuth(header).userKey, name),
                           HandleOutcome(RequireAuth(header).userKey, name).res)
               ELSE resp
    /\ UNCHANGED <<now, ticks, kv, sessions, usedSids, history, bucket, usedIds,
                   videoOps, provider, cache, upstreamCalls, gen, del, walk,
                   sent, sse>>

(* A status request that asks the provider again while the job is running *)
VideoStatusPollWaits(s, statusOk) ==
    /\ vid[s].pc = "status"
    /\ upstreamCalls < MaxCalls
    /\ upstreamCalls' = upstreamCalls + 1
    /\ vid' = IF statusOk /\ provider[vid[s].name] = "running" THEN vid
              ELSE IF StatusOutcome(provider[vid[s].name], statusOk).stop
              THEN [vid EXCEPT ![s] = [pc |-> "idle"]]
              ELSE [vid EXCEPT ![s].pc = "download"]
    /\ resp' = IF statusOk /\ provider[vid[s].name] = "running" THEN resp
               ELSE IF StatusOutcome(provider[vid[s].name], statusOk).stop
               THEN [vid[s].answer EXCEPT
                       !.res = StatusOutcome(provider[vid[s].name], statusOk).res]
               ELSE resp
    /\ UNCHANGED <<now, ticks, kv, sessions, usedSids, history, bucket, usedIds,
                   videoOps, provider, cache, gen, del, walk, sent, sse>>

(* geminiVideoStatus returns *)
VideoStatusPoll(s, statusOk) ==
    /\ vid[s].pc = "status"
    /\ upstreamCalls < MaxCalls
    /\ upstreamCalls' = upstreamCalls + 1
    /\ vid' = IF StatusOutcome(provider[vid[s].name], statusOk).stop
              THEN [vid EXCEPT ![s] = [pc |-> "idle"]]
              ELSE [vid EXCEPT ![s].pc = "download"]
    /\ resp' = IF StatusOutcome(provider[vid[s].name], statusOk).stop
               THEN [vid[s].answer EXCEPT
                       !.res = StatusOutcome(provider[vid[s].name], statusOk).res]
               ELSE resp
    /\ UNCHANGED <<now, ticks, kv, sessions, usedSids, history, bucket, usedIds,
                   videoOps, provider, cache, gen, del, walk, sent, sse>>

(* A failed download that deletes the handle before it answers *)
VideoDownloadForgets(s, downloadOk, id) ==
    /\ vid[s].pc = "download"
    /\ downloadOk <=> id # NoId
    /\ vid' = IF downloadOk
              THEN [vid EXCEPT ![s] = [pc |-> "put", name |-> vid[s].name,
                                       opMeta |-> vid[s].opMeta,
                                       answer |-> vid[s].answer, id |-> id]]
              ELSE [vid EXCEPT ![s] = [pc |-> "idle"]]
    /\ usedIds' = IF downloadOk THEN usedIds \cup {id} ELSE usedIds
    /\ videoOps' = IF downloadOk THEN videoOps
                   ELSE [o \in DOMAIN videoOps \ {vid[s].name} |-> videoOps[o]]
    /\ resp' = IF downloadOk THEN resp
               ELSE [vid[s].answer EXCEPT
                       !.res = ErrorJson(500, "Failed to download video")]
    /\ UNCHANGED <<now, ticks, kv, sessions, usedSids, history, bucket,
                   provider, cache, upstreamCalls, gen, del, walk, sent, sse>>

(* The download of the video returns; on success the route draws the new    *)
(* media id (crypto.randomUUID)                                             *)
VideoDownload(s, downloadOk, id) ==
    /\ vid[s].pc = "download"
    /\ downloadOk <=> id # NoId
    /\ vid' = IF downloadOk
              THEN [vid EXCEPT ![s] = [pc |-> "put", name |-> vid[s].name,
                                       opMeta |-> vid[s].opMeta,
                                       answer |-> vid[s].answer, id |-> id]]
              ELSE [vid EXCEPT ![s] = [pc |-> "idle"]]
    /\ usedIds' = IF downloadOk THEN usedIds \cup {id} ELSE usedIds
    /\ resp' = IF downloadOk THEN resp
               ELSE [vid[s].answer EXCEPT
                       !.res = ErrorJson(500, "Failed to download video")]
    /\ UNCHANGED <<now, ticks, kv, sessions, usedSids, history, bucket,
                   videoOps, provider, cache, upstreamCalls, gen, del, walk,
                   sent, sse>>

(* MEDIA_BUCKET.put returns *)
VideoPut(s) ==
    /\ vid[s].pc = "put"
    /\ bucket' = BucketPut(bucket, R2Key(vid[s].opMeta.userKey, vid[s].id, VideoMime),
                           <<"bytes", vid[s].name>>, VideoMime)
    /\ vid' = [vid EXCEPT ![s].pc = "insert"]
    /\ UNCHANGED <<now, ticks, kv, sessions, usedSids, history, usedIds,
                   videoOps, provider, cache, upstreamCalls, gen, del, resp, walk,
                   sent, sse>>

(* insertHistory returns *)
VideoInsert(s) ==
    /\ vid[s].pc = "insert"
    /\ history' = InsertHistory(history,
                     HistoryRow(vid[s].id, vid[s].opMeta.userKey, "video",
                                vid[s].opMeta.prompt, now, VideoMime, NoText))
    /\ vid' = [vid EXCEPT ![s].pc = "forget"]
    /\ UNCHANGED <<now, ticks, kv, sessions, usedSids, bucket, usedIds,
                   videoOps, provider, cache, upstreamCalls, gen, del, resp, walk,
                   sent, sse>>

(* USERS_KV.delete of the handle returns, and the route answers *)
VideoForget(s) ==
    /\ vid[s].pc = "forget"
    /\ videoOps' = [o \in DOMAIN videoOps \ {vid[s].name} |-> videoOps[o]]
    /\ vid' = [vid EXCEPT ![s] = [pc |-> "idle"]]
    /\ resp' = [vid[s].answer EXCEPT
                  !.res = Json([ok |-> TRUE, done |-> TRUE, mediaId |-> vid[s].id,
                                mediaUrl |-> MediaUrl(vid[s].id),
                                mimeType |-> VideoMime], 200, <<>>)]
    /\ UNCHANGED <<now, ticks, kv, sessions, usedSids, history, bucket, usedIds,
                   provider, cache, upstreamCalls, gen, del, walk, sent, sse>>

----------------------------------------------------------------------------
(* The session manager on its own *)

(* Bob's credential is enabled and stays so; session id s3 was issued and  *)
(* destroyed earlier, so a cookie carrying it names no row.                *)
InitAuth ==
    /\ now = 0
    /\ ticks = 0
    /\ kv = [k \in {Bob} |-> <<"1">>]
    /\ sessions = <<>>
    /\ usedSids = {Sid3}
    /\ history = <<>>
    /\ bucket = <<>>
    /\ usedIds = {}
    /\ videoOps = <<>>
    /\ provider = <<>>
    /\ cache = <<>>
    /\ upstreamCalls = 0
    /\ gen = IdleGen
    /\ del = IdleDel
    /\ vid = IdleVid
    /\ walk = IdleWalk
    /\ sent = NoParts
    /\ sse = IdleSse
    /\ resp = NoResp

NextAuth ==
    \/ \E d \in {1, SESSION_TTL_SECONDS - 1} : Tick(d)
    \/ \E v \in KvValues : AdminPut(Alice, v)
    \/ AdminDelete(Alice)
    \/ \E k \in BodyKeys : AuthCheckRequest(k)
    \/ \E r \in {"auth/logout", "other"}, h \in CookieHeaders : Unauthorized(r, h)
    \/ \E h \in CookieHeaders : Logout(h)
    \/ \E h \in CookieHeaders : NoRoute(h)

SpecAuth == InitAuth /\ [][NextAuth]_vars


----------------------------------------------------------------------------
(* Session manager: properties *)

(* C3: requireAuth returns {userKey, sessionId} only for a token whose row  *)
(* exists, is not expired and whose credential is enabled, and in every     *)
(* other case (no cookie, unparsable value, missing or expired row, revoked *)
(* credential) returns unauthenticated rather than raising.                 *)
C3_RequireAuthNeverRaises ==
    resp.auth \in {"auth", "null", "throw"} =>
        /\ (resp.auth = "auth" <=> resp.why = "valid")
        /\ (resp.why # "valid" => resp.auth = "null")

FailReasons == {"nocookie", "unknown", "expired", "revoked"}

(* C4: requests that differ only in why authentication fails (no cookie,    *)
(* unknown token, expired session, revoked credential) get the same         *)
(* response, 401 with the same body and no header telling them apart.       *)
C4_UniformUnauthorized ==
    /\ \A h1, h2 \in CookieHeaders :
          (Why(h1) \in FailReasons /\ Why(h2) \in FailReasons) =>
              /\ Gate(h1) = Gate(h2)
              /\ Gate(h1).stop
              /\ Gate(h1).res.status = 401
    /\ resp.why \in FailReasons => resp.res = ErrorJson(401, "Unauthorized")

C4_Witness ==
    /\ resp.why = "revoked"
    /\ resp.res.status = 401
    /\ \E h \in CookieHeaders : Why(h) = "expired"

ThirtyDays == 30 * 24 * 60 * 60

CredentialEnabled(userKey) == userKey \in DOMAIN kv /\ Trim(kv[userKey]) = <<"1">>

(* C5: a session row expires 30 days after its creation; while the          *)
(* credential is enabled requireAuth succeeds at every time before          *)
(* expiresAt and fails from expiresAt on, and the failing check deletes the *)
(* row, so that later checks find no row.                                   *)
C5_SessionLifetime ==
    /\ \A sid \in DOMAIN sessions :
          LET row == sessions[sid]
              a == RequireAuth(SessionCookieOf(sid))
          IN  /\ row.expires_at = row.created_at + ThirtyDays
              /\ CredentialEnabled(row.user_key) =>
                    /\ now < row.expires_at =>
                          a.tag = "auth" /\ a.userKey = row.user_key /\ a.sessionId = sid
                    /\ now >= row.expires_at =>
                          /\ a.tag = "null"
                          /\ sid \notin DOMAIN SessionsAfterAuth(SessionCookieOf(sid))
    /\ resp.why = "expired" =>
          resp.auth = "null" /\ resp.sessionId \notin DOMAIN sessions

C5_Witness ==
    /\ resp.why = "expired"
    /\ resp.sessionId \in usedSids \ DOMAIN sessions
    /\ \E sid \in DOMAIN sessions :
          /\ CredentialEnabled(sessions[sid].user_key)
          /\ now = sessions[sid].expires_at - 1

(* The user keys a credential check is made with: empty, whitespace, a key *)
(* of the store, a key of the store with whitespace around it              *)
CheckedKeys == BodyKeys \ {Null}

(* C23: isAllowedUserKey(userKey) is true exactly when the credential store *)
(* holds an enabled flag under that very key; it is false for every other   *)
(* string and for the empty string, and POST /api/auth/check admits a       *)
(* non-empty key exactly when isAllowedUserKey does.                        *)
C23_AllowedIffEnabled ==
    /\ [](/\ \A k \in CheckedKeys :
                IsAllowedUserKey(kv, k) <=> (k # <<>> /\ CredentialEnabled(k))
          /\ ~IsAllowedUserKey(kv, <<>>)
          /\ \A k \in CheckedKeys \ DOMAIN kv : ~IsAllowedUserKey(kv, k))
    /\ [][(resp' # resp /\ resp'.route = "auth/check" /\ resp'.user # <<>>) =>
             /\ resp'.res.status = 200 <=> CredentialEnabled(resp'.user)
             /\ resp'.res.status # 200 => resp'.res = ErrorJson(401, "Invalid userKey")
      ]_vars

C23_Witness ==
    /\ resp.route = "auth/check"
    /\ resp.user = Alice
    /\ resp.res.status = 401
    /\ Alice \in DOMAIN kv
    /\ kv[Alice] = <<"0">>
    /\ IsAllowedUserKey(kv, Bob)
    /\ ~IsAllowedUserKey(kv, <<" ">> \o Bob \o <<" ">>)

(* A posted userKey that is absent or empty, or has whitespace before or    *)
(* after it                                                                 *)
EmptyOrUntrimmed(bodyKey) ==
    \/ bodyKey = Null
    \/ bodyKey = <<>>
    \/ Trim(bodyKey) # bodyKey

(* C24: a credential check whose userKey is empty or carries leading or     *)
(* trailing whitespace is rejected whatever the credential store holds (the *)
(* store is not consulted) and creates no session.                          *)
C24_UntrimmedKeyRejected ==
    [][\A k \in BodyKeys :
          (AuthCheckRequest(k) /\ EmptyOrUntrimmed(k)) =>
              /\ resp'.res = ErrorJson(400, "Missing userKey")
              /\ sessions' = sessions
              /\ usedSids' = usedSids
      ]_vars

(* C25: destroySession(sessionId) removes the row of sessionId if there is  *)
(* one and no other row, a second call leaves the table as the first left   *)
(* it, and it returns the directive that clears the session cookie          *)
(* (Max-Age 0) whether or not the row was there.                            *)
C25_DestroySessionIdempotent ==
    /\ [](\A sid \in Sids :
             /\ sid \notin DOMAIN DestroySession(sessions, sid).sessions
             /\ DOMAIN DestroySession(sessions, sid).sessions = DOMAIN sessions \ {sid}
             /\ \A t \in DOMAIN sessions \ {sid} :
                   DestroySession(sessions, sid).sessions[t] = sessions[t]
             /\ DestroySession(DestroySession(sessions, sid).sessions, sid)
                   = DestroySession(sessions, sid)
             /\ sid \notin DOMAIN sessions =>
                   DestroySession(sessions, sid).sessions = sessions
             /\ DestroySession(sessions, sid).clearSessionCookieHeader.name
                   = SESSION_COOKIE
             /\ DestroySession(sessions, sid).clearSessionCookieHeader.value = <<>>
             /\ DestroySession(sessions, sid).clearSessionCookieHeader.maxAge = 0)
    /\ [][(resp' # resp /\ resp'.route = "auth/logout" /\ resp'.res.status = 200) =>
             /\ resp'.sessionId \in DOMAIN sessions
             /\ sessions' = DestroySession(sessions, resp'.sessionId).sessions
             /\ resp'.sessionId \notin DOMAIN sessions'
             /\ \A t \in DOMAIN sessions \ {resp'.sessionId} :
                   t \in DOMAIN sessions' /\ sessions'[t] = sessions[t]
             /\ resp'.res.setCookie
                   = <<DestroySession(sessions, resp'.sessionId).clearSessionCookieHeader>>
      ]_vars

C25_Witness ==
    /\ resp.route = "auth/logout"
    /\ resp.res.status = 200
    /\ resp.sessionId \in usedSids \ DOMAIN sessions
    /\ DOMAIN sessions # {}
    /\ resp.res.setCookie[1].maxAge = 0

(* C26: a successful POST /api/auth/check inserts one row, under a token    *)
(* never issued before, and leaves the rows there as they were (a user key  *)
(* may so hold several valid sessions); a failed check inserts none; a      *)
(* logout makes its own token unauthenticated and changes the outcome of    *)
(* requireAuth for no other token.                                          *)
C26_SessionsIndependent ==
    [][/\ \A k \in BodyKeys :
             AuthCheckRequest(k) =>
                 IF resp'.res.status = 200
                 THEN \E sid \in Sids \ usedSids :
                         /\ sid \notin DOMAIN sessions
                         /\ DOMAIN sessions' = DOMAIN sessions \cup {sid}
                         /\ \A t \in DOMAIN sessions : sessions'[t] = sessions[t]
                         /\ sessions'[sid].user_key = PostedUserKey(k)
                         /\ resp'.res.setCookie[1].value = EncodeURIComponent(sid)
                         /\ RequireAuth(SessionCookieOf(sid))'.tag = "auth"
                 ELSE sessions' = sessions /\ usedSids' = usedSids
       /\ (resp' # resp /\ resp'.route = "auth/logout" /\ resp'.res.status = 200) =>
             \A t \in Sids :
                 IF t = resp'.sessionId
                 THEN /\ RequireAuth(SessionCookieOf(t)).tag = "auth"
                      /\ RequireAuth(SessionCookieOf(t))'.tag = "null"
                 ELSE RequireAuth(SessionCookieOf(t))' = RequireAuth(SessionCookieOf(t))
      ]_vars

C26_Witness ==
    /\ resp.route = "auth/logout"
    /\ resp.res.status = 200
    /\ resp.user = Bob
    /\ resp.sessionId \notin DOMAIN sessions
    /\ \E t \in DOMAIN sessions :
          /\ sessions[t].user_key = Bob
          /\ RequireAuth(SessionCookieOf(t)).tag = "auth"

(* C37: a change of the credential store changes no session row.  While    *)
(* the credential of a row is not enabled requireAuth fails for its token   *)
(* and, before expires_at, leaves the row; a request so refused is answered *)
(* 401.  When the credential is enabled again before expires_at the same    *)
(* token authenticates, with the row as it was.                             *)
C37_RevocationKeepsSessions ==
    /\ [](\A sid \in DOMAIN sessions :
             ~CredentialEnabled(sessions[sid].user_key) =>
                 /\ RequireAuth(SessionCookieOf(sid)).tag = "null"
                 /\ now < sessions[sid].expires_at =>
                       SessionsAfterAuth(SessionCookieOf(sid)) = sessions)
    /\ [][/\ kv' # kv => sessions' = sessions /\ usedSids' = usedSids
          /\ (resp' # resp /\ resp'.why = "revoked") =>
                /\ resp'.res = ErrorJson(401, "Unauthorized")
                /\ sessions' = sessions
          /\ \A sid \in DOMAIN sessions :
                (/\ ~CredentialEnabled(sessions[sid].user_key)
                 /\ sessions[sid].user_key \in DOMAIN kv'
                 /\ Trim(kv'[sessions[sid].user_key]) = <<"1">>
                 /\ now < sessions[sid].expires_at) =>
                    /\ sid \in DOMAIN sessions'
                    /\ sessions'[sid] = sessions[sid]
                    /\ RequireAuth(SessionCookieOf(sid))'.tag = "auth"
                    /\ RequireAuth(SessionCookieOf(sid))'.sessionId = sid
                    /\ RequireAuth(SessionCookieOf(sid))'.userKey = sessions[sid].user_key
         ]_vars

C37_Witness ==
    /\ resp.why = "revoked"
    /\ resp.res.status = 401
    /\ CredentialEnabled(Alice)
    /\ \E sid \in DOMAIN sessions :
          /\ sessions[sid].user_key = Alice
          /\ Why(SessionCookieOf(sid)) = "valid"
          /\ RequireAuth(SessionCookieOf(sid)).tag = "auth"
          /\ now > sessions[sid].created_at

(* Why a request has no valid session: no Cookie header, no session cookie  *)
(* in it, a token without a row, an expired row, a credential not enabled   *)
NoSessionReasons == {"nocookie", "nosession", "unknown", "expired", "revoked"}

(* C39: a POST /api/auth/logout without a valid session (no cookie, a token *)
(* without a row, an expired session, a revoked credential) is answered 401 *)
(* with no Set-Cookie and deletes no session row but the expired one its    *)
(* auth check found; a logout is answered 200 only with a valid session,    *)
(* and then with the directive that clears the session cookie.              *)
C39_LogoutWithoutSession ==
    [][(resp' # resp /\ resp'.route = "auth/logout") =>
          /\ resp'.res.status = 200 <=> resp'.why = "valid"
          /\ resp'.why = "valid" =>
                /\ resp'.res.setCookie = <<SetCookie(SESSION_COOKIE, <<>>, 0)>>
                /\ resp'.sessionId \notin DOMAIN sessions'
          /\ resp'.why \in NoSessionReasons =>
                /\ resp'.res = ErrorJson(401, "Unauthorized")
                /\ resp'.res.setCookie = <<>>
                /\ \A sid \in DOMAIN sessions :
                      \/ sid \in DOMAIN sessions' /\ sessions'[sid] = sessions[sid]
                      \/ /\ resp'.why = "expired"
                         /\ sid = resp'.sessionId
                         /\ sessions[sid].expires_at <= now
      ]_vars

C39_Witness ==
    /\ resp.route = "auth/logout"
    /\ resp.why = "expired"
    /\ resp.res = ErrorJson(401, "Unauthorized")
    /\ resp.sessionId \in usedSids \ DOMAIN sessions
    /\ \E sid \in DOMAIN sessions : now < sessions[sid].expires_at

----------------------------------------------------------------------------
(* The routes over a ledger with records of two users *)

(* The records of the ledger *)
RouteIds == {"i1", "i2", "i3"}

AliceCookie == SessionCookieOf(Sid1)
BobCookie == SessionCookieOf(Sid2)

(* Alice and Bob are signed in (sessions s1, s2).  Alice has made images i1 *)
(* and i3, Bob image i2; Alice has started video operation op1.             *)
InitRoutes ==
    /\ now = 2
    /\ ticks = 0
    /\ kv = [k \in UserKeys |-> <<"1">>]
    /\ sessions = [sid \in {Sid1, Sid2} |->
                     SessionRow(IF sid = Sid1 THEN Alice ELSE Bob, 0)]
    /\ usedSids = {Sid1, Sid2}
    /\ history = [i \in RouteIds |->
                    HistoryRow(i, IF i = "i2" THEN Bob ELSE Alice, "image", <<"p">>,
                               IF i = "i3" THEN 2 ELSE 1, "image/png", NoText)]
    /\ bucket = [k \in {R2Key(IF i = "i2" THEN Bob ELSE Alice, i, "image/png") : i \in RouteIds}
                   |-> [bytes |-> DecodeBase64("d1"), contentType |-> "image/png",
                        etag |-> <<"etag", DecodeBase64("d1")>>]]
    /\ usedIds = Ids
    /\ videoOps = [o \in {"op1"} |-> Handle(Alice, <<"p">>, 1)]
    /\ provider = [o \in {"op1"} |-> "running"]
    /\ cache = <<>>
    /\ upstreamCalls = 4
    /\ gen = IdleGen
    /\ del = IdleDel
    /\ vid = IdleVid
    /\ walk = IdleWalk
    /\ sent = NoParts
    /\ sse = IdleSse
    /\ resp = NoResp

RouteCookies == {Null, AliceCookie, BobCookie, SessionCookieOf(<<"%">>)}

(* The ids the requests name: Alice's i1, Bob's i2 and no one's *)
PathIds == {"i1", "i2", GhostId}

Refs == {MediaRef(i) : i \in PathIds}

(* The cursors of the model: none, one per record and second piece, and     *)
(* hand-made ones (ts not a number, empty ts, no id, an id after all ids)   *)
Cursors ==
    {NoCursor, Cursor(Word("x"), "i2"), Cursor(Word(""), "i2"), Cursor(Numeral(2), "")}
    \cup {Cursor(Numeral(t), i) : t \in 1..3, i \in RouteIds \cup {"zz"}}

SentCursors ==
    {NoCursor, Cursor(Numeral(2), "i3"), Cursor(Numeral(1), "i2"),
     Cursor(Word("x"), "i2"), Cursor(Numeral(3), "zz")}

(* The inputs of an edit: a record as the image, or as the mask of an      *)
(* uploaded image                                                           *)
Edits == {[images |-> <<r>>, mask |-> NoRef] : r \in Refs}
         \cup {[images |-> <<DataUrlRef>>, mask |-> r] : r \in Refs}

NextRoutes ==
    \/ \E r \in Routes, h \in RouteCookies : Unauthorized(r, h)
    \/ \E h \in RouteCookies : NoRoute(h)
    \/ \E h \in RouteCookies, c \in SentCursors :
          HistoryList(h, Numeral(1), c, Raises) /\ UNCHANGED walk
    \/ \E h \in RouteCookies, i \in PathIds \cup {""} : DeleteStart(h, i)
    \/ DeleteBlob
    \/ \E h \in RouteCookies, i \in PathIds : MediaGet(h, i, FALSE, NoTag)
    \/ \E h \in RouteCookies, e \in Edits, bodyStream \in BOOLEAN :
          GenStart(h, <<"p">>, "edit", NoCount, bodyStream, FALSE, e.images, e.mask)
    \/ BlobLost(R2Key(Alice, "i1", "image/png"))
    \/ \E h \in RouteCookies, r \in Refs : VideoStart(h, <<"p">>, r, "named")
    \/ \E o \in OpNames \cup {GhostOp} : VideoStatusStart("r1", BobCookie, o)

SpecRoutes == InitRoutes /\ [][NextRoutes]_vars

----------------------------------------------------------------------------
(* Ownership and the auth gate: properties *)

(* C1: a DELETE /api/history/{id} by an authenticated user who does not own *)
(* record {id} is answered 404 and leaves the record's ledger row and its   *)
(* blob as they were.                                                       *)
C1_ForeignDeleteKeepsRecord ==
    [][\A h \in RouteCookies, i \in PathIds :
          (DeleteStart(h, i) /\ Target(RequireAuth(h).userKey, i) = "foreign") =>
              /\ resp'.res.status = 404
              /\ HasRow(history', i)
              /\ GetHistoryById(history', i) = GetHistoryById(history, i)
              /\ bucket' = bucket]_vars

(* C2: a request on a route other than POST auth/check for which            *)
(* requireAuth yields no valid session is answered 401 and writes nothing   *)
(* to the ledger, the media store or the video handles and calls no         *)
(* upstream provider.                                                       *)
C2_NoSessionIs401 ==
    [][\A r \in Routes, h \in RouteCookies :
          (RequireAuth(h).tag # "auth" /\ resp' = Answer(r, h, "none", Gate(h).res)
              /\ resp' # resp) =>
              /\ resp'.res.status = 401
              /\ history' = history
              /\ bucket' = bucket
              /\ videoOps' = videoOps
              /\ upstreamCalls' = upstreamCalls]_vars

(* The ids of the records of userKey *)
OwnIds(table, userKey) == {i \in DOMAIN table : table[i].user_key = userKey}

(* The records and the video operations of another user than userKey *)
ForeignIds(userKey) == {i \in DOMAIN history : history[i].user_key # userKey}
ForeignOps(userKey) == {o \in DOMAIN videoOps : videoOps[o].userKey # userKey}

(* C6: what a user is answered about a record or a video operation of       *)
(* another user (media, delete, an edit or a video start naming it as       *)
(* mediaId, video status) is what the user is answered about an id or an    *)
(* operation that does not exist.                                           *)
C6_ForeignLooksMissing ==
    /\ \A u \in UserKeys :
          /\ \A i \in ForeignIds(u) :
                /\ \A range \in BOOLEAN, tag \in {NoTag, <<"etag", DecodeBase64("d1")>>} :
                      MediaOutcome(u, i, range, tag).res
                          = MediaOutcome(u, GhostId, range, tag).res
                /\ DeleteOutcome(u, i).res = DeleteOutcome(u, GhostId).res
                /\ DeleteOutcome(u, i).respond = DeleteOutcome(u, GhostId).respond
                /\ GenRejection(u, <<"p">>, "edit", <<MediaRef(i)>>, NoRef)
                      = GenRejection(u, <<"p">>, "edit", <<MediaRef(GhostId)>>, NoRef)
                /\ GenRejection(u, <<"p">>, "edit", <<DataUrlRef>>, MediaRef(i))
                      = GenRejection(u, <<"p">>, "edit", <<DataUrlRef>>, MediaRef(GhostId))
                /\ VideoStartOutcome(u, <<"p">>, MediaRef(i), "named", "op2")
                      = VideoStartOutcome(u, <<"p">>, MediaRef(GhostId), "named", "op2")
          /\ \A o \in ForeignOps(u) : HandleOutcome(u, o) = HandleOutcome(u, GhostOp)
    /\ (resp.target = "foreign" /\ resp.route = "media") =>
          resp.res = MediaOutcome(resp.user, GhostId, FALSE, NoTag).res
    /\ (resp.target = "foreign" /\ resp.route = "history/delete") =>
          resp.res = DeleteOutcome(resp.user, GhostId).res
    /\ (resp.target = "foreign" /\ resp.route = "video/status") =>
          resp.res = HandleOutcome(resp.user, GhostOp).res

C6_Witness ==
    /\ resp.route = "media"
    /\ resp.target = "foreign"
    /\ resp.user = Bob
    /\ ForeignIds(Bob) # {}
    /\ ForeignOps(Bob) # {}

(* C7: every record GET /api/history returns to a user has that user's      *)
(* userKey, on the first page and for every cursor, one of another user's   *)
(* records and hand-made ones included.                                     *)
C7_ListsOwnRecordsOnly ==
    /\ \A u \in UserKeys, c \in Cursors, limit \in {0, 1, 2, MaxLimit} :
          \A k \in 1..Len(ListHistory(history, u, ToNumber(Numeral(limit)), c, Raises).items) :
              ListHistory(history, u, ToNumber(Numeral(limit)), c, Raises).items[k].user_key = u
    /\ (resp.route = "history" /\ resp.res.status = 200) =>
          \A k \in 1..Len(resp.res.body.items) :
              resp.res.body.items[k].user_key = resp.user

C7_Witness ==
    /\ resp.route = "history"
    /\ resp.user = Bob
    /\ Len(resp.res.body.items) = 1
    /\ ForeignIds(Bob) # {}
    /\ \E c \in Cursors :
          /\ c.id \in ForeignIds(Bob)
          /\ ListHistory(history, Bob, ToNumber(Numeral(1)), c, Raises).items # <<>>

(* C14: when the owner's DELETE has answered 200 the row and the blob are    *)
(* gone, no row comes back, and every GET /api/media/{id} for an id without *)
(* a row answers 404 and leaves the edge cache alone, an entry the cache    *)
(* holds for that id included.                                              *)
C14_DeletedMediaIs404 ==
    /\ [](/\ \A u \in UserKeys, i \in PathIds :
                ~HasRow(history, i) =>
                    MediaOutcome(u, i, FALSE, NoTag)
                        = [res |-> ErrorJson(404, "Not found"), cache |-> cache]
          /\ (resp.route = "media" /\ resp.target = "missing") =>
                resp.res = ErrorJson(404, "Not found"))
    /\ [][/\ DeleteBlob =>
                /\ resp'.res = Json([ok |-> TRUE], 200, <<>>)
                /\ del.key \notin DOMAIN bucket'
                /\ \A i \in DOMAIN history' : history'[i].r2_key # del.key
          /\ \A i \in Ids : ~HasRow(history, i) => ~HasRow(history', i)
          /\ (resp' # resp /\ resp'.route = "media" /\ resp'.target = "missing") =>
                cache' = cache
         ]_vars

C14_Witness ==
    /\ resp.route = "media"
    /\ resp.target = "missing"
    /\ resp.user = Alice
    /\ resp.res.status = 404
    /\ "i1" \in DOMAIN cache
    /\ cache["i1"].status = 200
    /\ ~HasRow(history, "i1")
    /\ R2Key(Alice, "i1", "image/png") \notin DOMAIN bucket
    /\ del = IdleDel

(* C17: a GET /api/history whose cursor has not the form                   *)
(* <finite number>:<non-empty id> is refused as invalid input and returns   *)
(* no page of records.                                                      *)
C17_MalformedCursorRefused ==
    [][\A h \in RouteCookies, c \in SentCursors :
          (HistoryList(h, Numeral(1), c, Raises) /\ c # NoCursor /\ ~CursorUsable(c)) =>
              /\ resp'.res.status = 400
              /\ "items" \notin DOMAIN resp'.res.body
      ]_vars

(* A reference to a record that is not there, is another user's, or has no *)
(* blob                                                                     *)
Unresolved(userKey, ref) ==
    /\ ref.kind = "mediaId"
    /\ \/ ref.mediaId \notin DOMAIN history
       \/ history[ref.mediaId].user_key # userKey
       \/ history[ref.mediaId].r2_key \notin DOMAIN bucket

(* C20: an edit whose image or mask, or a video start whose image, is a     *)
(* reference that does not resolve fails as a whole: no upstream call, no   *)
(* blob, no row, no handle, no stream and so no start, item or skip event.  *)
C20_UnresolvedFailsFast ==
    /\ [](\A u \in UserKeys :
             /\ \A e \in Edits :
                   (Unresolved(u, e.images[1]) \/ Unresolved(u, e.mask)) =>
                       GenRejection(u, <<"p">>, "edit", e.images, e.mask)
                           = [stop |-> TRUE, res |-> Uncaught("Media not found")]
             /\ \A r \in Refs :
                   Unresolved(u, r) =>
                       VideoStartOutcome(u, <<"p">>, r, "named", "op2")
                           = [res |-> Uncaught("Media not found"), called |-> FALSE,
                              named |-> FALSE, videoOps |-> videoOps])
    /\ [][(/\ resp' # resp
           /\ resp'.route \in {"generate/image", "video/start"}
           /\ resp'.res = Uncaught("Media not found")) =>
              /\ gen' = gen
              /\ upstreamCalls' = upstreamCalls
              /\ provider' = provider
              /\ bucket' = bucket
              /\ history' = history
              /\ videoOps' = videoOps
      ]_vars

C20_Witness ==
    /\ resp.route = "generate/image"
    /\ resp.res = Uncaught("Media not found")
    /\ resp.user = Alice
    /\ gen = IdleGen
    /\ upstreamCalls = 4
    /\ HasRow(history, "i1")
    /\ Unresolved(Alice, MediaRef("i1"))
    /\ Unresolved(Alice, MediaRef("i2"))
    /\ Unresolved(Alice, MediaRef(GhostId))

----------------------------------------------------------------------------
(* The generation orchestrator: Alice's generate requests *)

InitGen ==
    /\ now = 1
    /\ ticks = 0
    /\ kv = [k \in {Alice} |-> <<"1">>]
    /\ sessions = [sid \in {Sid1} |-> SessionRow(Alice, 0)]
    /\ usedSids = {Sid1}
    /\ history = <<>>
    /\ bucket = <<>>
    /\ usedIds = {}
    /\ videoOps = <<>>
    /\ provider = <<>>
    /\ cache = <<>>
    /\ upstreamCalls = 0
    /\ gen = IdleGen
    /\ del = IdleDel
    /\ vid = IdleVid
    /\ walk = IdleWalk
    /\ sent = NoParts
    /\ sse = IdleSse
    /\ resp = NoResp

(* The counts request bodies carry: none, in range, below and above the     *)
(* range, not a number, with a fraction                                     *)
Counts == {NoCount, CountOf(2), CountOf(3), CountOf(0), CountOf(7), BadCount,
           CountOf(0 - 1), CountAndHalf(2), CountAndHalf(0)}

(* crypto.randomUUID(): an id no record has; the model draws the first one *)
FreshIds == {i \in Ids \ usedIds : \A j \in Ids \ usedIds : ~TextLess(j, i)}

(* One step of the request in flight *)
GenStep ==
    \/ GenCallFails
    \/ \E b \in {ImageBody, TextBody}, id \in FreshIds : GenCall(b, id)
    \/ GenPut
    \/ GenInsert
    \/ GenStoreFails

NextGen ==
    \/ \E p \in {<<"p">>, Null}, c \in Counts, bodyStream \in BOOLEAN :
          GenStart(AliceCookie, p, "generate", c, bodyStream, FALSE, <<>>, NoRef)
    \/ GenCallFails
    \/ \E b \in {ImageBody, TextBody}, id \in FreshIds : GenCall(b, id)
    \/ GenPut
    \/ GenInsert
    \/ GenStoreFails

(* Every await of the request settles: the upstream call and the stores     *)
(* answer or fail.                                                          *)
SpecGen == InitGen /\ [][NextGen]_vars /\ WF_vars(GenStep)

----------------------------------------------------------------------------
(* The generation orchestrator: properties *)

Streaming == gen.pc # "idle" /\ gen.stream
Closed == gen.pc = "closed"

Terminal(e) == e.event \in {"done", "error"}

(* The events between "start" and the terminal event *)
Middle(events) ==
    SubSeq(events, 2, IF Terminal(events[Len(events)]) THEN Len(events) - 1
                      ELSE Len(events))

EventsWellFormed ==
    Streaming =>
        /\ gen.events # <<>>
        /\ gen.events[1].event = "start"
        /\ \A k \in 2..Len(gen.events) : gen.events[k].event # "start"
        /\ \A k \in 1..Len(Middle(gen.events)) :
              /\ Middle(gen.events)[k].event \in {"item", "skip"}
              /\ Middle(gen.events)[k].index = k - 1
        /\ Len(Middle(gen.events)) <= gen.count
        /\ \A k \in 1..(Len(gen.events) - 1) : ~Terminal(gen.events[k])
        /\ Closed <=> Terminal(gen.events[Len(gen.events)])

StreamEnded == Streaming /\ Closed /\ Terminal(gen.events[Len(gen.events)])

(* C8: a streaming request emits one start event first, then item or skip   *)
(* events with indexes 0, 1, 2, ... (at most one per iteration), then one   *)
(* terminal event, done or error and never both; nothing follows the        *)
(* terminal event and the stream is closed.                                 *)
C8_EventSequence ==
    /\ []EventsWellFormed
    /\ (Streaming ~> StreamEnded)

C8_Witness ==
    /\ Streaming /\ Closed
    /\ gen.failed
    /\ Len(gen.events) = 3
    /\ gen.count = 3

(* Math.max(1, Math.min(5, ...)) of the count the body carries *)
Clamped(asked) ==
    IF ~asked.given \/ ~asked.finite THEN 1
    ELSE IF asked.n < 1 THEN 1
    ELSE IF asked.n > 5 THEN 5
    ELSE asked.n

ItemEvents(events) == {k \in DOMAIN events : events[k].event = "item"}

(* C9: a streaming request in which no call raises emits start with the     *)
(* clamped count n, then for each i in 0..n-1 item i if upstream result i   *)
(* holds an image and skip i otherwise, then done whose produced count is   *)
(* the number of item events.                                               *)
C9_EventsFollowResults ==
    (Streaming /\ Closed /\ ~gen.failed) =>
        /\ Len(gen.events) = Clamped(gen.asked) + 2
        /\ gen.events[1] = [event |-> "start", ok |-> TRUE,
                            requested |-> Clamped(gen.asked)]
        /\ Len(gen.returned) = Clamped(gen.asked)
        /\ \A i \in 0..(Clamped(gen.asked) - 1) :
              /\ gen.events[i + 2].index = i
              /\ gen.events[i + 2].event =
                    IF HasImage(ExtractImageResponse(gen.returned[i + 1]))
                    THEN "item" ELSE "skip"
        /\ gen.events[Len(gen.events)].event = "done"
        /\ gen.events[Len(gen.events)].produced = Cardinality(ItemEvents(gen.events))

C9_Witness ==
    /\ Streaming /\ Closed /\ ~gen.failed
    /\ gen.asked = CountOf(3)
    /\ gen.returned = <<ImageBody, TextBody, ImageBody>>
    /\ gen.events[Len(gen.events)].produced = 2

(* C10: in streaming mode the iterations after a failed one still run and   *)
(* each emits its item or skip event; in batch mode the failure ends the    *)
(* request.                                                                 *)
C10_FailureDoesNotAbortStream ==
    (gen.pc = "closed" /\ gen.failed) =>
        IF gen.stream
        THEN \A j \in (gen.i + 1)..(gen.count - 1) :
                \E k \in DOMAIN gen.events :
                    /\ gen.events[k].event \in {"item", "skip"}
                    /\ gen.events[k].index = j
        ELSE resp.res.status = 500

(* C19: whatever count the body carries, the request runs an integer number *)
(* of iterations in 1..5 (1 when the count is absent or not finite), every  *)
(* upstream call belongs to one iteration and none is made twice, and a     *)
(* request in which no call raises has made exactly that many calls.        *)
C19_OneCallPerIteration ==
    /\ [](gen.pc # "idle" =>
             /\ gen.count \in MinCount..MaxCount
             /\ gen.count = Clamped(gen.asked)
             /\ (~gen.asked.given \/ ~gen.asked.finite) => gen.count = 1
             /\ gen.i <= gen.count
             /\ Len(gen.returned) <= gen.count
             /\ (gen.pc = "closed" /\ ~gen.failed) =>
                   gen.i = gen.count /\ Len(gen.returned) = gen.count)
    /\ [][upstreamCalls' # upstreamCalls =>
             /\ upstreamCalls' = upstreamCalls + 1
             /\ gen.pc = "call"
             /\ gen.i < gen.count
             /\ ~(gen'.pc = "call" /\ gen'.i = gen.i)
             /\ gen'.failed \/ Len(gen'.returned) = Len(gen.returned) + 1
      ]_vars

C19_Witness ==
    /\ gen.pc = "closed"
    /\ ~gen.failed
    /\ gen.asked = CountAndHalf(2)
    /\ gen.count = 2
    /\ Len(gen.returned) = 2
    /\ upstreamCalls = 2

(* A batch request that ran to its end, no call or store having raised *)
BatchEnded == gen.pc = "closed" /\ ~gen.stream /\ ~gen.failed

(* The iterations whose upstream result holds an image *)
ImageResults(returned) ==
    {k \in DOMAIN returned : HasImage(ExtractImageResponse(returned[k]))}

(* C22: a non-streaming request in which no call raises answers 200; with   *)
(* {ok: false} and the text note when every upstream result is empty, and   *)
(* then it has persisted nothing; with {ok: true, items} otherwise, the     *)
(* items being the records the request persisted, one each, in iteration    *)
(* order.                                                                   *)
C22_BatchResponse ==
    /\ [](BatchEnded =>
             /\ Len(gen.items) = Cardinality(ImageResults(gen.returned))
             /\ \A k \in DOMAIN gen.items :
                   /\ HasRow(history, gen.items[k].mediaId)
                   /\ history[gen.items[k].mediaId].r2_key \in DOMAIN bucket
                   /\ \A j \in DOMAIN gen.items :
                         j # k => gen.items[j].mediaId # gen.items[k].mediaId)
    /\ [][(gen.pc \notin {"idle", "closed"} /\ ~gen.stream) =>
             /\ (gen'.pc = "closed" /\ ~gen'.failed) =>
                   /\ resp'.route = "generate/image"
                   /\ resp'.user = gen.userKey
                   /\ resp'.res.status = 200
                   /\ IF ImageResults(gen'.returned) = {}
                      THEN resp'.res.body =
                              [ok |-> FALSE,
                               text |-> ExtractImageResponse(
                                            gen'.returned[Len(gen'.returned)]).textResponse]
                      ELSE resp'.res.body = [ok |-> TRUE, items |-> gen'.items]
             /\ (upstreamCalls' # upstreamCalls /\ ~gen'.failed
                   /\ ~HasImage(gen'.result)) =>
                   /\ history' = history
                   /\ bucket' = bucket
                   /\ usedIds' = usedIds
                   /\ gen'.items = gen.items
                   /\ gen'.pc # "put"
             /\ history' # history =>
                   /\ gen.pc = "insert"
                   /\ ~HasRow(history, gen.id)
                   /\ DOMAIN history' = DOMAIN history \cup {gen.id}
                   /\ Len(gen'.items) = Len(gen.items) + 1
                   /\ SubSeq(gen'.items, 1, Len(gen.items)) = gen.items
                   /\ gen'.items[Len(gen'.items)].mediaId = gen.id
             /\ gen'.items # gen.items => history' # history
             /\ bucket' # bucket => gen.pc = "put" /\ HasImage(gen.result)
      ]_vars

C22_Witness ==
    /\ BatchEnded
    /\ gen.returned = <<TextBody, TextBody>>
    /\ resp.res.body = [ok |-> FALSE, text |-> "t"]
    /\ history # <<>>
    /\ upstreamCalls = MaxCalls

----------------------------------------------------------------------------
(* Video operations, with status requests in flight together *)

InitVideo ==
    /\ now = 1
    /\ ticks = 0
    /\ kv = [k \in {Alice, Bob} |-> <<"1">>]
    /\ sessions = [sid \in {Sid1, Sid2} |->
                     IF sid = Sid1 THEN SessionRow(Alice, 0) ELSE SessionRow(Bob, 0)]
    /\ usedSids = {Sid1, Sid2}
    /\ history = <<>>
    /\ bucket = <<>>
    /\ usedIds = {}
    /\ videoOps = <<>>
    /\ provider = <<>>
    /\ cache = <<>>
    /\ upstreamCalls = 0
    /\ gen = IdleGen
    /\ del = IdleDel
    /\ vid = IdleVid
    /\ walk = IdleWalk
    /\ sent = NoParts
    /\ sse = IdleSse
    /\ resp = NoResp

NextVideo ==
    \/ \E h \in {AliceCookie, BobCookie}, outcome \in {"named", "fails"} :
          VideoStart(h, <<"p">>, NoRef, outcome)
    \/ \E o \in OpNames, state \in {"done", "error", "nolink"} : ProviderEnds(o, state)
    \/ \E s \in Slots, h \in {AliceCookie, BobCookie}, o \in OpNames :
          VideoStatusStart(s, h, o)
    \/ \E s \in Slots, statusOk \in BOOLEAN : VideoStatusPoll(s, statusOk)
    \/ \E s \in Slots, downloadOk \in BOOLEAN, id \in FreshIds \cup {NoId} :
          VideoDownload(s, downloadOk, id)
    \/ \E s \in Slots : VideoPut(s)
    \/ \E s \in Slots : VideoInsert(s)
    \/ \E s \in Slots : VideoForget(s)

SpecVideo == InitVideo /\ [][NextVideo]_vars

(* The records of kind video that hold the video of operation o *)
VideoRecords(o) ==
    {i \in DOMAIN history :
        /\ history[i].kind = "video"
        /\ history[i].r2_key \in DOMAIN bucket
        /\ bucket[history[i].r2_key].bytes = <<"bytes", o>>}

(* The status requests about operation o that have not answered yet *)
InFlight(o) == {s \in Slots : vid[s].pc # "idle" /\ vid[s].name = o}

(* C11: an operation the provider ends with a video gets at most one record *)
(* of kind video however the owner's status requests interleave, and once   *)
(* the request that made the record has answered, the handle is gone.       *)
C11_OneRecordPerOperation ==
    \A o \in OpNames :
        /\ Cardinality(VideoRecords(o)) <= 1
        /\ (VideoRecords(o) # {} /\ InFlight(o) = {}) => o \notin DOMAIN videoOps

(* C12: a video start that succeeds answers with the operation name the     *)
(* provider returned and has stored the handle {userKey, prompt} under that *)
(* name; a status request of the owner that finds the operation not done    *)
(* answers {done: false} and changes no record, no blob and no handle.      *)
C12_StartPersistsRunningLeaves ==
    [][/\ (resp' # resp /\ resp'.route = "video/start" /\ resp'.res.status = 200) =>
             \E name \in OpNames \ DOMAIN provider :
                 /\ name \in DOMAIN provider'
                 /\ provider'[name] = "running"
                 /\ resp'.res.body = [ok |-> TRUE, operationName |-> name]
                 /\ name \in DOMAIN videoOps'
                 /\ videoOps'[name] = [userKey |-> resp'.user, prompt |-> <<"p">>,
                                        expiration |-> now + HANDLE_TTL_SECONDS]
       /\ \A s \in Slots :
             (vid[s].pc = "idle" /\ vid'[s].pc = "status") =>
                 /\ history' = history
                 /\ bucket' = bucket
                 /\ videoOps' = videoOps
       /\ \A s \in Slots :
             (VideoStatusPoll(s, TRUE) /\ provider[vid[s].name] = "running") =>
                 /\ resp'.res = Json([ok |-> TRUE, done |-> FALSE], 200, <<>>)
                 /\ resp'.user = vid[s].opMeta.userKey
                 /\ vid'[s].pc = "idle"
                 /\ history' = history
                 /\ bucket' = bucket
                 /\ videoOps' = videoOps
                 /\ vid[s].name \in DOMAIN videoOps => videoOps'[vid[s].name] = vid[s].opMeta
      ]_vars

C12_Witness ==
    /\ resp.route = "video/status"
    /\ resp.res.body = [ok |-> TRUE, done |-> FALSE]
    /\ resp.user = Alice
    /\ "op1" \in DOMAIN videoOps
    /\ videoOps["op1"] = [userKey |-> Alice, prompt |-> <<"p">>,
                           expiration |-> 1 + HANDLE_TTL_SECONDS]
    /\ provider["op1"] = "running"

(* The blobs that hold the video of operation o *)
VideoBlobs(o) == {k \in DOMAIN bucket : bucket[k].bytes = <<"bytes", o>>}

(* C13: a status request that finds the operation done with an error        *)
(* answers with the provider's message and writes nothing; an operation     *)
(* that ended with an error never has a record or a blob, however many      *)
(* status requests are made.                                                *)
C13_ErrorSurfacedNothingStored ==
    /\ [](\A o \in DOMAIN provider :
             provider[o] = "error" => VideoRecords(o) = {} /\ VideoBlobs(o) = {})
    /\ [][\A s \in Slots :
             (VideoStatusPoll(s, TRUE) /\ provider[vid[s].name] = "error") =>
                 /\ resp'.res.status = 200
                 /\ resp'.res.body =
                       [ok |-> TRUE, done |-> TRUE, error |-> ProviderMessage]
                 /\ vid'[s].pc = "idle"
                 /\ history' = history
                 /\ bucket' = bucket
      ]_vars

C13_Witness ==
    /\ resp.route = "video/status"
    /\ resp.res.body = [ok |-> TRUE, done |-> TRUE, error |-> ProviderMessage]
    /\ DOMAIN provider = {"op1"}
    /\ provider["op1"] = "error"
    /\ upstreamCalls >= 4
    /\ history = <<>>
    /\ bucket = <<>>

----------------------------------------------------------------------------
(* The history ledger read page by page while records come and go *)

MaxPage == 2

ListIds == {"i1", "i2", "i3", "i4"}

(* Records i1, i2 were made in the same millisecond, and so were i3, i4 *)
MadeAt(i) == IF i \in {"i1", "i2"} THEN 1 ELSE 2

(* Alice is signed in and has any of the records of ListIds; Bob has i5 *)
InitList ==
    /\ now = 2
    /\ ticks = 0
    /\ kv = [k \in UserKeys |-> <<"1">>]
    /\ sessions = [sid \in {Sid1} |-> SessionRow(Alice, 0)]
    /\ usedSids = {Sid1}
    /\ \E made \in SUBSET ListIds :
          /\ history = [i \in made \cup {"i5"} |->
                          HistoryRow(i, IF i = "i5" THEN Bob ELSE Alice, "image",
                                     <<"p">>, MadeAt(i), "image/png", NoText)]
          /\ bucket = [k \in {R2Key(IF i = "i5" THEN Bob ELSE Alice, i, "image/png") :
                                i \in made \cup {"i5"}}
                         |-> [bytes |-> DecodeBase64("d1"), contentType |-> "image/png",
                              etag |-> <<"etag", DecodeBase64("d1")>>]]
          /\ usedIds = made \cup {"i5"}
    /\ videoOps = <<>>
    /\ provider = <<>>
    /\ cache = <<>>
    /\ upstreamCalls = MaxCalls - 1
    /\ gen = IdleGen
    /\ del = IdleDel
    /\ vid = IdleVid
    /\ walk = IdleWalk
    /\ sent = NoParts
    /\ sse = IdleSse
    /\ resp = NoResp

(* The ids of the rows of a page, in the page's order *)
IdsOf(items) == [k \in 1..Len(items) |-> items[k].id]

(* The history panel loads its first page, or the page after the cursor it  *)
(* holds (loadMore), and keeps the page and the new cursor                  *)
Follow(limit) ==
    /\ walk.pc # "done"
    /\ walk.pc = "walking" => limit = walk.limit
    /\ HistoryList(AliceCookie, limit,
                   IF walk.pc = "idle" THEN NoCursor ELSE walk.cursor, Raises)
    /\ walk' = [pc |-> IF resp'.res.body.nextCursor = NoCursor THEN "done"
                       ELSE "walking",
                limit |-> limit,
                cursor |-> resp'.res.body.nextCursor,
                pages |-> Append(IF walk.pc = "idle" THEN <<>> ELSE walk.pages,
                                 [ids |-> IdsOf(resp'.res.body.items),
                                  next |-> resp'.res.body.nextCursor]),
                start |-> IF walk.pc = "idle" THEN OwnIds(history, Alice)
                          ELSE walk.start]

NextList ==
    \/ \E l \in 1..MaxPage : Follow(Numeral(l))
    \/ Tick(1)
    \/ GenStart(AliceCookie, <<"p">>, "generate", NoCount, FALSE, FALSE, <<>>, NoRef)
    \/ \E id \in Ids \ usedIds : GenCall(ImageBody, id)
    \/ GenPut
    \/ GenInsert
    \/ \E i \in {"i1", "i3"} : DeleteStart(AliceCookie, i)
    \/ DeleteBlob

SpecList == InitList /\ [][NextList]_vars

(* The ids the traversal has returned so far, page after page *)
RECURSIVE Visited(_)
Visited(pages) ==
    IF pages = <<>> THEN <<>> ELSE pages[1].ids \o Visited(Tail(pages))

(* Nothing was written since the traversal began: every id ever drawn has   *)
(* its row, and Alice's records are those the traversal started with        *)
NoWrites == usedIds = DOMAIN history /\ OwnIds(history, Alice) = walk.start

C16_NoRepeatNoLoss ==
    walk.pc # "idle" =>
        /\ \A j, k \in DOMAIN Visited(walk.pages) :
              j # k => Visited(walk.pages)[j] # Visited(walk.pages)[k]
        /\ walk.pc = "done" =>
              \A i \in walk.start \cap DOMAIN history :
                  \E k \in DOMAIN Visited(walk.pages) : Visited(walk.pages)[k] = i

C16_Witness ==
    /\ walk.pc = "done"
    /\ Len(walk.pages) >= 3
    /\ Cardinality(walk.start) >= 2
    /\ walk.start \subseteq DOMAIN history
    /\ \E k \in DOMAIN Visited(walk.pages) : Visited(walk.pages)[k] \notin walk.start

----------------------------------------------------------------------------
(* One page of the ledger, for every limit and cursor a request can carry *)

(* The limit parameters of the model: none, 0, negative, in range, above   *)
(* the range, with a fraction, not a number                                 *)
Limits == {NoLimit, Numeral(0), Numeral(0 - 1), Numeral(1), Numeral(MaxLimit + 1),
           NumeralAndHalf(1), Word("abc")}

DbOutcomes == {Raises, Returns(1)}

(* Cursors of the first pages, and hand-made ones *)
PageCursors == {NoCursor, Cursor(Numeral(2), "i3"), Cursor(Word("x"), "i2"),
                Cursor(Numeral(2), "")}

NextPage ==
    \/ \E l \in Limits, c \in PageCursors, db \in DbOutcomes :
          HistoryList(AliceCookie, l, c, db) /\ UNCHANGED walk
    \/ \E i \in {"i1", "i3"} : DeleteStart(AliceCookie, i)
    \/ DeleteBlob

SpecPage == InitList /\ [][NextPage]_vars

(* The limit the ledger is to apply: the parameter (20 when absent), cut to *)
(* 1..50; a parameter that is not a number leaves any limit of 1..50        *)
LimitsAllowed(limit) ==
    IF limit = NoLimit THEN {DefaultLimit}
    ELSE IF ~ToNumber(limit).finite THEN MinLimit..MaxLimit
    ELSE IF ToNumber(limit).n < MinLimit THEN {MinLimit}
    ELSE IF ToNumber(limit).n > MaxLimit THEN {MaxLimit}
    ELSE {ToNumber(limit).n}

(* C18: whatever the limit parameter is, the request is answered with a     *)
(* page of at most clamp(limit, 1, 50) items whose nextCursor is null       *)
(* exactly when the user has no more records than that, and is the          *)
(* (created_at, id) of the last item otherwise.                             *)
C18_PageWithinLimit ==
    [][\A l \in Limits, db \in DbOutcomes :
          (HistoryList(AliceCookie, l, NoCursor, db) /\ UNCHANGED walk) =>
              /\ resp'.res.status = 200
              /\ \E n \in LimitsAllowed(l) :
                    /\ Len(resp'.res.body.items) <= n
                    /\ (resp'.res.body.nextCursor = NoCursor)
                          <=> (Cardinality(OwnIds(history, resp'.user)) <= n)
                    /\ resp'.res.body.nextCursor # NoCursor =>
                          resp'.res.body.nextCursor
                              = CursorOf(resp'.res.body.items[Len(resp'.res.body.items)])
      ]_vars

----------------------------------------------------------------------------
(* Single requests: generate, edit and video start with the prompts and the *)
(* source images a body can carry, and the bodies the provider answers with *)

(* body.prompt: a text, absent, empty, whitespace only *)
Prompts == {<<"p">>, Null, <<>>, <<" ", " ">>}

BlankPrompts == {p \in Prompts : Trim(IF p = Null THEN <<>> ELSE p) = <<>>}

(* body.images of an edit: absent or empty, or one uploaded image *)
SourceImages == {<<>>, <<DataUrlRef>>}

(* The 200 bodies without an image payload: no candidates, text only, a     *)
(* refusal with and without a reason, no parts, an empty text, an           *)
(* inlineData without data                                                  *)
NoImageBodies ==
    {<<>>, TextBody, BlockedBody, <<Refused("")>>, <<Candidate(<<>>)>>,
     <<Candidate(<<TextPart("")>>)>>, <<Candidate(<<InlinePart("", "image/png")>>)>>}

(* Alice is signed in; the stores are empty *)
InitInput ==
    /\ now = 1
    /\ ticks = 0
    /\ kv = [k \in {Alice} |-> <<"1">>]
    /\ sessions = [sid \in {Sid1} |-> SessionRow(Alice, 0)]
    /\ usedSids = {Sid1}
    /\ history = <<>>
    /\ bucket = <<>>
    /\ usedIds = {}
    /\ videoOps = <<>>
    /\ provider = <<>>
    /\ cache = <<>>
    /\ upstreamCalls = MaxCalls - 3
    /\ gen = IdleGen
    /\ del = IdleDel
    /\ vid = IdleVid
    /\ walk = IdleWalk
    /\ sent = NoParts
    /\ sse = IdleSse
    /\ resp = NoResp

NextInput ==
    \/ \E p \in Prompts, action \in {"generate", "edit"}, bodyStream \in BOOLEAN,
          images \in SourceImages :
          GenStart(AliceCookie, p, action, NoCount, bodyStream, FALSE, images, NoRef)
    \/ GenCallFails
    \/ \E b \in NoImageBodies \cup {ImageBody}, id \in FreshIds : GenCall(b, id)
    \/ GenPut
    \/ GenInsert
    \/ \E p \in Prompts : VideoStart(AliceCookie, p, NoRef, "named")

SpecInput == InitInput /\ [][NextInput]_vars

(* The stores, the request in flight and the provider are left alone *)
NothingDone ==
    /\ history' = history
    /\ bucket' = bucket
    /\ videoOps' = videoOps
    /\ provider' = provider
    /\ upstreamCalls' = upstreamCalls
    /\ usedIds' = usedIds
    /\ sessions' = sessions
    /\ kv' = kv
    /\ cache' = cache
    /\ gen' = gen

(* C21: a generate, edit or video start request whose prompt is missing or  *)
(* whitespace only, and an edit request without source images, is answered  *)
(* 400 and nothing else happens: no upstream call, no blob, no row, no      *)
(* handle, every store as it was.                                           *)
C21_InvalidInputIs400 ==
    [][/\ gen.pc \in {"idle", "closed"} =>
             /\ \A p \in BlankPrompts, action \in {"generate", "edit"},
                   bodyStream \in BOOLEAN, images \in SourceImages :
                   GenStart(AliceCookie, p, action, NoCount, bodyStream, FALSE,
                            images, NoRef) =>
                       /\ resp'.res = ErrorJson(400, "Missing prompt")
                       /\ NothingDone
             /\ \A p \in Prompts \ BlankPrompts, bodyStream \in BOOLEAN :
                   GenStart(AliceCookie, p, "edit", NoCount, bodyStream, FALSE,
                            <<>>, NoRef) =>
                       /\ resp'.res = ErrorJson(400, "Missing images for edit")
                       /\ NothingDone
       /\ gen' = gen =>
             \A p \in BlankPrompts :
                 VideoStart(AliceCookie, p, NoRef, "named") =>
                     /\ resp'.res = ErrorJson(400, "Missing prompt")
                     /\ NothingDone
      ]_vars

C21_Witness ==
    /\ resp.route = "generate/image"
    /\ resp.res = ErrorJson(400, "Missing images for edit")
    /\ history # <<>>
    /\ DOMAIN bucket # {}
    /\ DOMAIN videoOps # {}
    /\ upstreamCalls > 0

(* C28: a provider response without an image payload comes back from        *)
(* extractImageResponse as a result with no image and a text note that is   *)
(* neither null nor empty, and nothing is raised: the orchestrator goes on  *)
(* to the next iteration (a skip event when streaming) and writes no blob   *)
(* and no row for it.  A response that is not OK raises.                    *)
C28_EmptyResultIsNotAnError ==
    /\ [](\A b \in NoImageBodies :
             /\ ExtractImageResponse(b).newImageBase64 = ""
             /\ ExtractImageResponse(b).newImageMimeType = ""
             /\ ExtractImageResponse(b).textResponse # NoText
             /\ ExtractImageResponse(b).textResponse # ""
             /\ ~HasImage(ExtractImageResponse(b)))
    /\ [][/\ \A b \in NoImageBodies :
                (/\ upstreamCalls' # upstreamCalls
                 /\ gen.pc = "call"
                 /\ ~gen'.failed
                 /\ gen'.returned = Append(gen.returned, b)) =>
                    /\ history' = history
                    /\ bucket' = bucket
                    /\ usedIds' = usedIds
                    /\ gen'.pc \in {"call", "closed"}
                    /\ gen'.i = gen.i + 1
                    /\ gen'.produced = gen.produced
                    /\ gen'.items = gen.items
                    /\ gen'.lastText = ExtractImageResponse(b).textResponse
                    /\ gen.stream =>
                          gen'.events[Len(gen.events) + 1]
                              = [event |-> "skip", index |-> gen.i,
                                 text |-> ExtractImageResponse(b).textResponse]
          /\ GenCallFails =>
                /\ gen'.failed
                /\ gen'.pc = "closed"
                /\ history' = history
                /\ bucket' = bucket
                /\ IF gen.stream
                   THEN gen'.events[Len(gen'.events)]
                           = [event |-> "error", message |-> UpstreamError]
                   ELSE resp'.res = Uncaught(UpstreamError)
         ]_vars

C28_Witness ==
    /\ gen.pc = "closed"
    /\ gen.stream
    /\ ~gen.failed
    /\ gen.returned = <<BlockedBody>>
    /\ gen.events[2] = [event |-> "skip", index |-> 0, text |-> BlockedBecause("SAFETY")]
    /\ history # <<>>

----------------------------------------------------------------------------
(* The media route with conditional and range requests, over the ledger of  *)
(* the routes above                                                         *)

(* If-None-Match: absent, the entity tag of the blobs, another tag *)
Tags == {NoTag, <<"etag", DecodeBase64("d1")>>, <<"etag", DecodeBase64("d0")>>}

NextMedia ==
    \/ \E h \in {AliceCookie, BobCookie}, i \in PathIds, range \in BOOLEAN, tag \in Tags :
          MediaGet(h, i, range, tag)
    \/ \E h \in {Null, SessionCookieOf(Sid3)} : Unauthorized("media", h)
    \/ \E i \in PathIds : DeleteStart(AliceCookie, i)
    \/ DeleteBlob
    \/ BlobLost(R2Key(Alice, "i1", "image/png"))

SpecMedia == InitRoutes /\ [][NextMedia]_vars

(* C27: the owner's GET /api/media/{id} whose If-None-Match is the entity   *)
(* tag of the blob is answered 304 with an empty body, whether or not the   *)
(* edge cache holds the 200 response of an earlier request; with another    *)
(* tag or none the answer is 200 with the blob and Cache-Control public,    *)
(* max-age=31536000, immutable.                                             *)
C27_MatchingTagIs304 ==
    [][\A h \in {AliceCookie, BobCookie}, i \in PathIds, range \in BOOLEAN, tag \in Tags :
          (/\ MediaGet(h, i, range, tag)
           /\ Target(RequireAuth(h).userKey, i) = "own"
           /\ history[i].r2_key \in DOMAIN bucket) =>
              IF tag = bucket[history[i].r2_key].etag
              THEN /\ resp'.res.status = 304
                   /\ resp'.res.body = [bytes |-> <<>>]
              ELSE /\ resp'.res.status = 200
                   /\ resp'.res.body = [bytes |-> bucket[history[i].r2_key].bytes]
                   /\ resp'.res.cacheControl = "public, max-age=31536000, immutable"
      ]_vars

(* C36: the media route reads and fills the edge cache only for a request   *)
(* that has passed the auth gate and whose requester owns the record: a     *)
(* request without a valid session is answered 401 and one for a record of  *)
(* another user 404, whatever the cache holds under the id, and neither     *)
(* changes the cache.                                                       *)
C36_CacheBehindAuthAndOwnership ==
    /\ [](\A u \in UserKeys, i \in PathIds, range \in BOOLEAN, tag \in Tags :
             Target(u, i) # "own" =>
                 MediaOutcome(u, i, range, tag)
                     = [res |-> ErrorJson(404, "Not found"), cache |-> cache])
    /\ [][/\ (resp' # resp /\ resp'.route = "media") =>
                /\ resp'.auth # "auth" =>
                       /\ resp'.res = ErrorJson(401, "Unauthorized")
                       /\ cache' = cache
                /\ (resp'.auth = "auth" /\ resp'.target # "own") =>
                       /\ resp'.res = ErrorJson(404, "Not found")
                       /\ cache' = cache
                /\ resp'.res.status \in {200, 304} =>
                       /\ resp'.auth = "auth"
                       /\ resp'.target = "own"
                       /\ resp'.user \in UserKeys
          /\ \A i \in DOMAIN cache' :
                (i \notin DOMAIN cache \/ cache'[i] # cache[i]) =>
                    /\ resp'.route = "media"
                    /\ resp'.auth = "auth"
                    /\ HasRow(history, i)
                    /\ history[i].user_key = resp'.user
                    /\ cache'[i] = resp'.res
         ]_vars

C36_Witness ==
    /\ resp.route = "media"
    /\ resp.auth = "auth"
    /\ resp.user = Bob
    /\ resp.target = "foreign"
    /\ resp.res = ErrorJson(404, "Not found")
    /\ "i1" \in DOMAIN cache
    /\ HasRow(history, "i1")

----------------------------------------------------------------------------
(* The ledger and the media store under generate, video finalize and delete *)
(* requests in flight together, any of which may stop at any await          *)

(* The worker is terminated while the generate request waits, or the client *)
(* has gone and the runtime cancels the request: nothing more of the        *)
(* request runs and no response is sent                                     *)
GenCrash ==
    /\ gen.pc \in {"call", "put", "insert"}
    /\ gen' = IdleGen
    /\ UNCHANGED <<now, ticks, kv, sessions, usedSids, history, bucket, usedIds,
                   videoOps, provider, cache, upstreamCalls, del, resp, vid, walk,
                   sent, sse>>

(* ... while the delete request waits for MEDIA_BUCKET.delete *)
DeleteCrash ==
    /\ del.pc = "blob"
    /\ del' = IdleDel
    /\ UNCHANGED <<now, ticks, kv, sessions, usedSids, history, bucket, usedIds,
                   videoOps, provider, cache, upstreamCalls, gen, resp, vid, walk,
                   sent, sse>>

(* ... while the video status request s waits *)
VideoCrash(s) ==
    /\ vid[s].pc # "idle"
    /\ vid' = [vid EXCEPT ![s] = [pc |-> "idle"]]
    /\ UNCHANGED <<now, ticks, kv, sessions, usedSids, history, bucket, usedIds,
                   videoOps, provider, cache, upstreamCalls, gen, del, resp, walk,
                   sent, sse>>

(* Alice and Bob are signed in.  Alice has image i5, and her video          *)
(* operation op1 has ended with a video.                                    *)
InitStore ==
    /\ now = 2
    /\ ticks = 0
    /\ kv = [k \in UserKeys |-> <<"1">>]
    /\ sessions = [sid \in {Sid1, Sid2} |->
                     SessionRow(IF sid = Sid1 THEN Alice ELSE Bob, 0)]
    /\ usedSids = {Sid1, Sid2}
    /\ history = [i \in {"i5"} |->
                    HistoryRow(i, Alice, "image", <<"p">>, 1, "image/png", NoText)]
    /\ bucket = [k \in {R2Key(Alice, "i5", "image/png")} |->
                   [bytes |-> DecodeBase64("d1"), contentType |-> "image/png",
                    etag |-> <<"etag", DecodeBase64("d1")>>]]
    /\ usedIds = {"i5"}
    /\ videoOps = [o \in {"op1"} |-> Handle(Alice, <<"p">>, 1)]
    /\ provider = [o \in {"op1"} |-> "done"]
    /\ cache = <<>>
    /\ upstreamCalls = MaxCalls - 2
    /\ gen = IdleGen
    /\ del = IdleDel
    /\ vid = IdleVid
    /\ walk = IdleWalk
    /\ sent = NoParts
    /\ sse = IdleSse
    /\ resp = NoResp

NextStore ==
    \/ GenStart(AliceCookie, <<"p">>, "generate", NoCount, FALSE, FALSE, <<>>, NoRef)
    \/ \E id \in FreshIds : GenCall(ImageBody, id)
    \/ GenPut
    \/ GenInsert
    \/ GenStoreFails
    \/ GenCrash
    \/ VideoStatusStart("r1", AliceCookie, "op1")
    \/ VideoStatusPoll("r1", TRUE)
    \/ \E id \in FreshIds : VideoDownload("r1", TRUE, id)
    \/ VideoPut("r1")
    \/ VideoInsert("r1")
    \/ VideoForget("r1")
    \/ VideoCrash("r1")
    \/ \E i \in {"i1", "i2", "i5"} : DeleteStart(AliceCookie, i)
    \/ DeleteStart(BobCookie, "i5")
    \/ DeleteBlob
    \/ DeleteCrash

SpecStore == InitStore /\ [][NextStore]_vars

(* The blobs no row refers to *)
Orphans == {k \in DOMAIN bucket : \A i \in DOMAIN history : history[i].r2_key # k}

(* C29: in every state, those between the awaits of generate, video         *)
(* finalize and delete requests in flight together and those a request      *)
(* that stopped at an await leaves, the r2_key of every row names a blob of *)
(* the media store: a row is inserted only when its blob is there, and a    *)
(* blob is deleted only when no row names it.                               *)
C29_NoDanglingRow ==
    /\ [](\A i \in DOMAIN history : history[i].r2_key \in DOMAIN bucket)
    /\ [][/\ \A i \in DOMAIN history' \ DOMAIN history :
                history'[i].r2_key \in DOMAIN bucket
          /\ \A k \in DOMAIN bucket \ DOMAIN bucket' :
                \A i \in DOMAIN history : history[i].r2_key # k
         ]_vars

C29_Witness ==
    /\ gen = IdleGen
    /\ del = IdleDel
    /\ vid = IdleVid
    /\ history # <<>>
    /\ \E k \in Orphans : k[3] = "mp4"
    /\ \E k \in Orphans : k[3] = "png"
    /\ resp.route = "history/delete"

----------------------------------------------------------------------------
(* Generate requests of several iterations that fail or are cut short *)

NextPartial ==
    \/ \E c \in {CountOf(2), CountOf(3)}, bodyStream \in BOOLEAN :
          GenStart(AliceCookie, <<"p">>, "generate", c, bodyStream, FALSE, <<>>, NoRef)
    \/ GenCallFails
    \/ \E b \in {ImageBody, TextBody}, id \in FreshIds : GenCall(b, id)
    \/ GenPut
    \/ GenInsert
    \/ GenStoreFails
    \/ GenCrash

SpecPartial == InitGen /\ [][NextPartial]_vars

(* C30: when an iteration of a generate request fails, streaming or not, or *)
(* the request is cut short because the client has gone, the rows and the   *)
(* blobs its earlier iterations committed stay in the stores as they were:  *)
(* no step of a request removes or changes a row or a blob.                 *)
C30_NoRollback ==
    /\ [](gen.pc # "idle" =>
             \A i \in ProducedIds(gen) :
                 /\ HasRow(history, i)
                 /\ history[i].user_key = gen.userKey
                 /\ history[i].r2_key \in DOMAIN bucket)
    /\ [][/\ \A i \in DOMAIN history :
                i \in DOMAIN history' /\ history'[i] = history[i]
          /\ \A k \in DOMAIN bucket :
                k \in DOMAIN bucket' /\ bucket'[k] = bucket[k]
         ]_vars

C30_Witness ==
    /\ gen.pc = "closed"
    /\ gen.failed
    /\ gen.stream
    /\ gen.i = 2
    /\ gen.count = 3
    /\ Cardinality(ProducedIds(gen)) = 2
    /\ ProducedIds(gen) = DOMAIN history

----------------------------------------------------------------------------
(* The rows and the blob keys that generate and video finalize requests of  *)
(* two users create, and the deletes that follow                            *)

NextKeys ==
    \/ \E h \in {AliceCookie, BobCookie} :
          GenStart(h, <<"p">>, "generate", NoCount, FALSE, FALSE, <<>>, NoRef)
    \/ \E b \in {ImageBody, NotedImageBody}, id \in FreshIds : GenCall(b, id)
    \/ GenPut
    \/ GenInsert
    \/ VideoStatusStart("r1", AliceCookie, "op1")
    \/ VideoStatusPoll("r1", TRUE)
    \/ \E id \in FreshIds : VideoDownload("r1", TRUE, id)
    \/ VideoPut("r1")
    \/ VideoInsert("r1")
    \/ VideoForget("r1")
    \/ \E h \in {AliceCookie, BobCookie}, i \in {"i1", "i5"} : DeleteStart(h, i)
    \/ DeleteBlob

SpecKeys == InitStore /\ [][NextKeys]_vars

(* The authenticated requester of the request in flight that drew id i *)
RequesterOf(i) ==
    IF gen.pc = "insert" /\ gen.id = i THEN gen.answer.user
    ELSE vid["r1"].answer.user

(* C31: every row the gateway inserts has user_key equal to the             *)
(* authenticated requester and r2_key equal to user_key/id.ext for its own  *)
(* id and the extension of its mime type; the keys of distinct rows are     *)
(* distinct, and a blob delete leaves the blob of every remaining row.      *)
C31_RowsKeyedByOwnerAndId ==
    /\ [](\A i \in DOMAIN history :
             /\ history[i].id = i
             /\ history[i].r2_key =
                    <<history[i].user_key, i, ExtFromMime(history[i].mime_type)>>
             /\ \A j \in DOMAIN history \ {i} : history[j].r2_key # history[i].r2_key)
    /\ [][/\ \A i \in DOMAIN history' \ DOMAIN history :
                /\ history'[i].user_key = RequesterOf(i)
                /\ RequesterOf(i) \in UserKeys
          /\ \A k \in DOMAIN bucket \ DOMAIN bucket' :
                \A i \in DOMAIN history' : history'[i].r2_key # k
         ]_vars

C31_Witness ==
    /\ \E i, j \in DOMAIN history :
          /\ history[i].user_key = Alice
          /\ history[j].user_key = Bob
          /\ history[j].r2_key[3] = "bin"
          /\ history[i].r2_key \in DOMAIN bucket
          /\ history[j].r2_key \in DOMAIN bucket
    /\ "i5" \notin DOMAIN history
    /\ R2Key(Alice, "i5", "image/png") \notin DOMAIN bucket
    /\ resp.route = "history/delete"
    /\ resp.res.status = 200

(* C32: no step of the gateway changes a field of a row that is in the      *)
(* ledger: a read of an id present before and after the step returns the    *)
(* same row, a row is inserted only under an id that is absent, and         *)
(* otherwise an id only leaves the ledger.                                  *)
C32_RowsImmutable ==
    [][/\ \A i \in DOMAIN history \cap DOMAIN history' :
             GetHistoryById(history', i) = GetHistoryById(history, i)
       /\ \A i \in DOMAIN history' \ DOMAIN history :
             /\ ~HasRow(history, i)
             /\ GetHistoryById(history', i).id = i
             /\ GetHistoryById(history', i).created_at = now
       /\ \A i \in DOMAIN history \ DOMAIN history' :
             /\ del'.pc = "blob" \/ resp'.res = ErrorJson(404, "Not found")
             /\ \A j \in DOMAIN history' : history'[j] = history[j]
      ]_vars

C32_Witness ==
    /\ DOMAIN history = {"i1", "i2"}
    /\ history["i1"].kind = "video"
    /\ history["i2"].kind = "image"
    /\ history["i2"].user_key = Bob
    /\ del.pc = "blob"
    /\ del.key = R2Key(Alice, "i5", "image/png")

----------------------------------------------------------------------------
(* geminiEditImage on its own, over the inputs the edit route passes it *)

EditPrompts == {<<"p">>, <<"q">>}

(* base64Images: one to three inputs *)
EditInputs == {ImageInput("d1", "image/png"), ImageInput("d2", "image/jpeg"),
               ImageInput("d3", "image/png")}

ImageLists ==
    UNION {[1..n -> EditInputs] : n \in 1..3}

(* mask: undefined, a mask of its own, the same input as a source image *)
Masks == {NoMask, ImageInput("m1", "image/png"), ImageInput("d1", "image/png")}

NextEdit ==
    \E p \in EditPrompts, images \in ImageLists, mask \in Masks :
        EditImage(p, images, mask)

SpecEdit == InitGen /\ [][NextEdit]_vars

(* C33: when geminiEditImage is called with one or more source images and   *)
(* a mask, the parts of its request are the text prompt, then the source    *)
(* images in the order given, then the mask, and nothing else.              *)
C33_TextImagesMask ==
    [][\A p \in EditPrompts, images \in ImageLists, mask \in Masks \ {NoMask} :
          EditImage(p, images, mask) =>
              /\ Len(sent') = Len(images) + 2
              /\ sent'[1] = [kind |-> "text", text |-> p, data |-> "", mimeType |-> ""]
              /\ \A k \in 1..Len(images) :
                    sent'[k + 1] = [kind |-> "inlineData", text |-> "",
                                    data |-> images[k].base64,
                                    mimeType |-> images[k].mimeType]
              /\ sent'[Len(sent')] = [kind |-> "inlineData", text |-> "",
                                      data |-> mask.base64, mimeType |-> mask.mimeType]
      ]_vars

C33_Witness ==
    sent = << [kind |-> "text", text |-> <<"q">>, data |-> "", mimeType |-> ""],
              [kind |-> "inlineData", text |-> "", data |-> "d2", mimeType |-> "image/jpeg"],
              [kind |-> "inlineData", text |-> "", data |-> "d1", mimeType |-> "image/png"],
              [kind |-> "inlineData", text |-> "", data |-> "m1", mimeType |-> "image/png"] >>

----------------------------------------------------------------------------
(* Video start requests that the provider answers, fails, or answers        *)
(* without an operation name                                                *)

StartPrompts == {<<"p">>, <<" ", "q">>, Null, <<" ">>}

StartOutcomes == {"named", "fails", "unnamed"}

InitStart ==
    /\ now = 1
    /\ ticks = 0
    /\ kv = [k \in {Alice, Bob} |-> <<"1">>]
    /\ sessions = [sid \in {Sid1, Sid2} |->
                     IF sid = Sid1 THEN SessionRow(Alice, 0) ELSE SessionRow(Bob, 0)]
    /\ usedSids = {Sid1, Sid2}
    /\ history = <<>>
    /\ bucket = <<>>
    /\ usedIds = {}
    /\ videoOps = <<>>
    /\ provider = <<>>
    /\ cache = <<>>
    /\ upstreamCalls = MaxCalls - 3
    /\ gen = IdleGen
    /\ del = IdleDel
    /\ vid = IdleVid
    /\ walk = IdleWalk
    /\ sent = NoParts
    /\ sse = IdleSse
    /\ resp = NoResp

NextStart ==
    \/ \E h \in {AliceCookie, BobCookie}, p \in StartPrompts, outcome \in StartOutcomes :
          VideoStart(h, p, NoRef, outcome)
    \/ \E o \in OpNames : ProviderEnds(o, "done")
    \/ \E o \in OpNames : VideoStatusStart("r1", AliceCookie, o)
    \/ VideoStatusPoll("r1", TRUE)
    \/ \E id \in FreshIds : VideoDownload("r1", TRUE, id)
    \/ VideoPut("r1")
    \/ VideoInsert("r1")
    \/ VideoForget("r1")

SpecStart == InitStart /\ [][NextStart]_vars

(* C34: a video start whose provider call fails or returns no operation     *)
(* name raises and stores no handle; a handle exists only under a name the  *)
(* provider returned, and the handle a start stores records the requester   *)
(* and the trimmed prompt.                                                  *)
C34_HandleOnlyForReturnedName ==
    /\ [](DOMAIN videoOps \subseteq DOMAIN provider)
    /\ [][\A h \in {AliceCookie, BobCookie}, p \in StartPrompts \ {Null, <<" ">>},
            outcome \in StartOutcomes :
             VideoStart(h, p, NoRef, outcome) =>
                 IF outcome = "named"
                 THEN \E o \in OpNames \ DOMAIN provider :
                         /\ resp'.res = Json([ok |-> TRUE, operationName |-> o], 200, <<>>)
                         /\ DOMAIN videoOps' = DOMAIN videoOps \cup {o}
                         /\ videoOps'[o] = [userKey |-> RequireAuth(h).userKey,
                                            prompt |-> Trim(p),
                                            expiration |-> now + HANDLE_TTL_SECONDS]
                         /\ \A q \in DOMAIN videoOps : videoOps'[q] = videoOps[q]
                 ELSE /\ resp'.res.status = 500
                      /\ resp'.res = Uncaught(IF outcome = "fails"
                                              THEN "Failed to start video generation"
                                              ELSE "Failed to get operation name")
                      /\ videoOps' = videoOps
                      /\ provider' = provider
                      /\ upstreamCalls' = upstreamCalls + 1
         ]_vars

C34_Witness ==
    /\ resp.route = "video/start"
    /\ resp.user = Alice
    /\ resp.res = Uncaught("Failed to get operation name")
    /\ DOMAIN videoOps = {"op1"}
    /\ videoOps["op1"] = [userKey |-> Bob, prompt |-> <<"q">>,
                           expiration |-> 1 + HANDLE_TTL_SECONDS]
    /\ DOMAIN provider = {"op1"}

----------------------------------------------------------------------------
(* Video status requests, one at a time, over handles that age: Alice's     *)
(* operation op1 is running and Bob's op2 has ended with a video            *)

InitStatus ==
    /\ now = 1
    /\ ticks = 0
    /\ kv = [k \in {Alice, Bob} |-> <<"1">>]
    /\ sessions = [sid \in {Sid1, Sid2} |->
                     IF sid = Sid1 THEN SessionRow(Alice, 0) ELSE SessionRow(Bob, 0)]
    /\ usedSids = {Sid1, Sid2}
    /\ history = <<>>
    /\ bucket = <<>>
    /\ usedIds = {}
    /\ videoOps = [o \in OpNames |->
                     Handle(IF o = "op1" THEN Alice ELSE Bob, <<"p">>, 1)]
    /\ provider = [o \in OpNames |-> IF o = "op1" THEN "running" ELSE "done"]
    /\ cache = <<>>
    /\ upstreamCalls = MaxCalls - 3
    /\ gen = IdleGen
    /\ del = IdleDel
    /\ vid = IdleVid
    /\ walk = IdleWalk
    /\ sent = NoParts
    /\ sse = IdleSse
    /\ resp = NoResp

NextStatus ==
    \/ \E d \in {1, HANDLE_TTL_SECONDS - 1} : Tick(d)
    \/ \E state \in {"done", "error", "nolink"} : ProviderEnds("op1", state)
    \/ \E h \in {AliceCookie, BobCookie}, o \in OpNames \cup {GhostOp, ""} :
          VideoStatusStart("r1", h, o)
    \/ \E statusOk \in BOOLEAN : VideoStatusPoll("r1", statusOk)
    \/ \E downloadOk \in BOOLEAN, id \in FreshIds \cup {NoId} :
          VideoDownload("r1", downloadOk, id)
    \/ VideoPut("r1")
    \/ VideoInsert("r1")
    \/ VideoForget("r1")

SpecStatus == InitStatus /\ [][NextStatus]_vars

(* C35: a video status request asks the provider for the status at most     *)
(* once: the check is made from the position after the handle was read and  *)
(* leaves it, to the answer {done: false} at once when the job is running;  *)
(* no step returns a request to that position.  A request naming an         *)
(* operation with no handle, or with another user's, calls nothing and      *)
(* leaves the handles as they are.                                          *)
C35_OneStatusCheck ==
    [][/\ upstreamCalls' \in {upstreamCalls, upstreamCalls + 1}
       /\ upstreamCalls' # upstreamCalls =>
             /\ vid["r1"].pc = "status"
             /\ vid'["r1"].pc \in {"idle", "download"}
             /\ (provider[vid["r1"].name] = "running" /\ resp'.res.status = 200) =>
                   /\ vid'["r1"].pc = "idle"
                   /\ resp'.res.body = [ok |-> TRUE, done |-> FALSE]
       /\ vid'["r1"].pc = "status" =>
             \/ vid["r1"].pc = "idle"
             \/ vid'["r1"] = vid["r1"] /\ upstreamCalls' = upstreamCalls
       /\ (/\ resp' # resp
           /\ resp'.route = "video/status"
           /\ resp'.target \in {"missing", "foreign"}
           /\ resp'.res # ErrorJson(400, "Missing name")
           /\ vid["r1"].pc = "idle") =>
             /\ resp'.res = ErrorJson(404, "Operation not found")
             /\ upstreamCalls' = upstreamCalls
             /\ videoOps' = videoOps
             /\ provider' = provider
             /\ vid' = vid
      ]_vars

C35_Witness ==
    /\ resp.route = "video/status"
    /\ resp.user = Bob
    /\ resp.target = "foreign"
    /\ provider["op1"] = "error"
    /\ upstreamCalls = MaxCalls - 2
    /\ vid["r1"].pc = "status"
    /\ vid["r1"].name = "op1"

(* The status request in flight ends at this step without having stored the *)
(* video: the status check failed, the job runs, ended with an error or     *)
(* without a download link, or the download failed                          *)
EndsUnfinalized ==
    /\ vid["r1"].pc \in {"status", "download"}
    /\ vid'["r1"].pc = "idle"

(* C38: a status request that ends without finalizing leaves every handle   *)
(* as it is and answers the provider's error, 500 for a missing download    *)
(* link or 500 for a failed download; a handle in the store is read by its  *)
(* owner's status request, which goes on to the provider check, as long as  *)
(* less than 24 h have passed since it was put, and by no request after.    *)
C38_HandleKeptUnlessFinalized ==
    /\ [](\A o \in DOMAIN videoOps :
             /\ videoOps[o].expiration <= now + HANDLE_TTL_SECONDS
             /\ HandleOutcome(videoOps[o].userKey, o).stop
                    <=> now >= videoOps[o].expiration)
    /\ [][/\ EndsUnfinalized =>
                /\ videoOps' = videoOps
                /\ history' = history
                /\ bucket' = bucket
                /\ resp'.route = "video/status"
                /\ resp'.target = "own"
                /\ (upstreamCalls' = upstreamCalls) =>
                       resp'.res = ErrorJson(500, "Failed to download video")
                /\ (upstreamCalls' # upstreamCalls /\ resp'.res.status = 200) =>
                       \/ /\ provider[vid["r1"].name] = "running"
                          /\ resp'.res.body = [ok |-> TRUE, done |-> FALSE]
                       \/ /\ provider[vid["r1"].name] = "error"
                          /\ resp'.res.body = [ok |-> TRUE, done |-> TRUE,
                                               error |-> ProviderMessage]
                /\ (upstreamCalls' # upstreamCalls /\ resp'.res.status # 200) =>
                       \/ resp'.res = Uncaught("Failed to check video status")
                       \/ /\ provider[vid["r1"].name] = "nolink"
                          /\ resp'.res = ErrorJson(500, "No download link found")
          /\ \A o \in DOMAIN videoOps \ DOMAIN videoOps' :
                /\ vid["r1"].pc = "forget"
                /\ vid["r1"].name = o
          /\ (vid["r1"].pc = "idle" /\ vid'["r1"].pc = "status") =>
                /\ now < videoOps[vid'["r1"].name].expiration
                /\ videoOps[vid'["r1"].name].userKey = vid'["r1"].answer.user
                /\ upstreamCalls' = upstreamCalls
         ]_vars

C38_Witness ==
    /\ resp.route = "video/status"
    /\ resp.res = ErrorJson(500, "Failed to download video")
    /\ vid["r1"].pc = "download"
    /\ vid["r1"].name = "op1"
    /\ vid["r1"].answer.user = Alice
    /\ upstreamCalls = MaxCalls - 1
    /\ now = HANDLE_TTL_SECONDS

----------------------------------------------------------------------------
(* apiService.ts: the client that reads the event stream of a generation.
   Text is a sequence of characters; the stream is ASCII, so TextDecoder
   gives one character per byte however the bytes are chunked. *)

LF == "\n"
QUOTE == "\""

EventField == <<"e", "v", "e", "n", "t", ":">>
DataField == <<"d", "a", "t", "a", ":">>

(* String.prototype.startsWith *)
StartsWith(s, prefix) == Len(s) >= Len(prefix) /\ SubSeq(s, 1, Len(prefix)) = prefix

(* the first position where a blank line ("\n\n") starts; 0 is "none" *)
IndexOfBlank(s) ==
    IF \E i \in 1..(Len(s) - 1) : s[i] = LF /\ s[i + 1] = LF
    THEN CHOOSE i \in 1..(Len(s) - 1) :
             /\ s[i] = LF /\ s[i + 1] = LF
             /\ \A j \in 1..(i - 1) : ~(s[j] = LF /\ s[j + 1] = LF)
    ELSE 0

(* buffer.split("\n\n") *)
RECURSIVE SplitBlank(_)
SplitBlank(s) ==
    LET i == IndexOfBlank(s)
    IN  IF i = 0 THEN <<s>>
        ELSE <<SubSeq(s, 1, i - 1)>> \o SplitBlank(SubSeq(s, i + 2, Len(s)))

(* Array.prototype.join("\n") *)
RECURSIVE JoinLines(_)
JoinLines(ls) ==
    IF ls = <<>> THEN <<>>
    ELSE IF Len(ls) = 1 THEN ls[1]
    ELSE ls[1] \o <<LF>> \o JoinLines(Tail(ls))

(* JSON values of the payloads: a one-digit number, a one-character string
   or null, as the member the client reads of an object of one member *)
JsonNumber(n) == [t |-> "number", n |-> n, s |-> ""]
JsonString(c) == [t |-> "string", n |-> 0, s |-> c]
JsonNull == [t |-> "null", n |-> 0, s |-> ""]
JsonObject(key, value) == [ok |-> TRUE, key |-> key, value |-> value]
SyntaxError == [ok |-> FALSE, key |-> <<>>, value |-> JsonNull]

DigitChars == <<"0", "1", "2", "3", "4", "5", "6", "7", "8", "9">>
NullText == <<"n", "u", "l", "l">>

(* JSON.stringify of such an object *)
StringifyValue(v) ==
    IF v.t = "number" THEN <<DigitChars[v.n + 1]>>
    ELSE IF v.t = "string" THEN <<QUOTE, v.s, QUOTE>>
    ELSE NullText

Stringify(d) == <<"{", QUOTE>> \o d.key \o <<QUOTE, ":">> \o StringifyValue(d.value) \o <<"}">>

(* JSON.parse of the text of such an object; anything else is a SyntaxError *)
ParseValue(text) ==
    IF Len(text) = 1 /\ \E n \in 0..9 : DigitChars[n + 1] = text[1]
    THEN JsonNumber(CHOOSE n \in 0..9 : DigitChars[n + 1] = text[1])
    ELSE IF Len(text) = 3 /\ text[1] = QUOTE /\ text[3] = QUOTE /\ text[2] \notin {QUOTE, LF}
    THEN JsonString(text[2])
    ELSE JsonNull

IsValueText(text) ==
    \/ Len(text) = 1 /\ \E n \in 0..9 : DigitChars[n + 1] = text[1]
    \/ Len(text) = 3 /\ text[1] = QUOTE /\ text[3] = QUOTE /\ text[2] \notin {QUOTE, LF}
    \/ text = NullText

JsonParse(text) ==
    LET q == IndexOf(SubSeq(text, 3, Len(text)), QUOTE) + 2
    IN  IF /\ Len(text) >= 6
           /\ text[1] = "{" /\ text[2] = QUOTE /\ text[Len(text)] = "}"
           /\ q > 2 /\ q + 1 < Len(text) /\ text[q + 1] = ":"
           /\ IsValueText(SubSeq(text, q + 2, Len(text) - 1))
        THEN JsonObject(SubSeq(text, 3, q - 1), ParseValue(SubSeq(text, q + 2, Len(text) - 1)))
        ELSE SyntaxError

(* routes.ts send(event, data): the two pieces enqueued for one event *)
Send(event, data) ==
    EventField \o <<" ">> \o event \o <<LF>> \o DataField \o <<" ">> \o Stringify(data) \o <<LF, LF>>

MessageName == <<"m", "e", "s", "s", "a", "g", "e">>
StartName == <<"s", "t", "a", "r", "t">>
ItemName == <<"i", "t", "e", "m">>
SkipName == <<"s", "k", "i", "p">>
DoneName == <<"d", "o", "n", "e">>
ErrorName == <<"e", "r", "r", "o", "r">>

RequestedKey == <<"r", "e", "q", "u", "e", "s", "t", "e", "d">>
MediaIdKey == <<"m", "e", "d", "i", "a", "I", "d">>
IndexKey == <<"i", "n", "d", "e", "x">>
TextResponseKey == <<"t", "e", "x", "t", "R", "e", "s", "p", "o", "n", "s", "e">>
MessageKey == MessageName

(* evt.data.<key>: the member, or undefined *)
JsonUndefined == [t |-> "undefined", n |-> 0, s |-> ""]
Member(data, key) == IF data.key = key THEN data.value ELSE JsonUndefined

(* the loop over the lines of one block: the event name and the joined data *)
RECURSIVE ScanLines(_, _, _)
ScanLines(lines, eventName, dataLines) ==
    IF lines = <<>> THEN [eventName |-> eventName, dataStr |-> JoinLines(dataLines)]
    ELSE ScanLines(Tail(lines),
                   IF StartsWith(Head(lines), EventField)
                   THEN Trim(SubSeq(Head(lines), 7, Len(Head(lines)))) ELSE eventName,
                   IF StartsWith(Head(lines), DataField)
                   THEN Append(dataLines, Trim(SubSeq(Head(lines), 6, Len(Head(lines)))))
                   ELSE dataLines)

SseEvent(event, data) == [event |-> event, data |-> data]

(* a call of generateImageFromTextStream that has its response *)
Reading(blocks, stream, count) ==
    [pc |-> "reading", blocks |-> blocks, stream |-> stream, count |-> count,
     rest |-> stream, buffer |-> <<>>, delivered |-> <<>>, items |-> <<>>,
     produced |-> 0, requested |-> JsonNumber(count), lastText |-> JsonNull,
     message |-> JsonNull]

(* the callback generateImageFromTextStream hands to consumeSSE *)
OnEvent(c, evt) ==
    [c EXCEPT !.delivered = Append(@, evt),
              !.requested = IF evt.event = StartName THEN Member(evt.data, RequestedKey) ELSE @,
              !.produced = IF evt.event = ItemName THEN @ + 1 ELSE @,
              !.items = IF evt.event = ItemName THEN Append(@, evt.data) ELSE @,
              !.lastText = IF evt.event = DoneName THEN Member(evt.data, TextResponseKey) ELSE @,
              !.pc = IF evt.event = ErrorName THEN "raised" ELSE @,
              !.message = IF evt.event = ErrorName THEN Member(evt.data, MessageKey) ELSE @]

(* JSON.parse, then onEvent; a SyntaxError leaves before onEvent is called *)
Deliver(c, eventName, data) ==
    IF data.ok THEN OnEvent(c, SseEvent(eventName, data))
    ELSE [c EXCEPT !.pc = "raised", !.message = JsonString("SyntaxError")]

(* one block: no data, no event; else parse and deliver *)
DispatchOne(block, c) ==
    IF block.dataStr = <<>> THEN c
    ELSE Deliver(c, block.eventName, JsonParse(block.dataStr))

(* the loop of flush over the complete blocks, ended by the first throw *)
RECURSIVE Dispatch(_, _)
Dispatch(raws, c) ==
    IF raws = <<>> \/ c.pc = "raised" THEN c
    ELSE Dispatch(Tail(raws), DispatchOne(ScanLines(Split(Head(raws), LF), MessageName, <<>>), c))

(* flush that empties the buffer instead of keeping the last piece *)
FlushDropsRest(c) ==
    Dispatch(SubSeq(SplitBlank(c.buffer), 1, Len(SplitBlank(c.buffer)) - 1),
             [c EXCEPT !.buffer = <<>>])

(* flush: split the buffer, keep the last piece, deliver the others *)
Flush(c) ==
    Dispatch(SubSeq(SplitBlank(c.buffer), 1, Len(SplitBlank(c.buffer)) - 1),
             [c EXCEPT !.buffer = SplitBlank(c.buffer)[Len(SplitBlank(c.buffer))]])

(* fetch has answered 200 with an event stream *)
StreamOpen(blocks, stream, count) ==
    /\ sse.pc \in {"idle", "returned", "raised"}
    /\ sse' = Reading(blocks, stream, count)
    /\ UNCHANGED <<now, ticks, kv, sessions, usedSids, history, bucket, usedIds, videoOps,
                   provider, cache, upstreamCalls, gen, del, resp, vid, walk, sent>>

(* reader.read() gives the next n bytes; buffer += decode; flush() *)
ReadChunk(n) ==
    /\ sse.pc = "reading"
    /\ n \in 1..Len(sse.rest)
    /\ sse' = Flush([sse EXCEPT !.rest = SubSeq(@, n + 1, Len(@)),
                                !.buffer = @ \o SubSeq(sse.rest, 1, n)])
    /\ UNCHANGED <<now, ticks, kv, sessions, usedSids, history, bucket, usedIds, videoOps,
                   provider, cache, upstreamCalls, gen, del, resp, vid, walk, sent>>

(* reader.read() says done; the last flush; the call returns *)
Returned(c) == IF c.pc = "raised" THEN c ELSE [c EXCEPT !.pc = "returned"]

ReadDone ==
    /\ sse.pc = "reading"
    /\ sse.rest = <<>>
    /\ sse' = Returned(Flush(sse))
    /\ UNCHANGED <<now, ticks, kv, sessions, usedSids, history, bucket, usedIds, videoOps,
                   provider, cache, upstreamCalls, gen, del, resp, vid, walk, sent>>

----------------------------------------------------------------------------
(* The streams read: blocks as routes.ts sends them, and the other blocks an
   event stream may carry (data with no event field, a comment, a further
   blank line). *)

EventBlock(event, data) == [kind |-> "event", event |-> event, data |-> data]
DataBlock(data) == [kind |-> "data", event |-> MessageName, data |-> data]
CommentBlock == [kind |-> "comment", event |-> <<>>, data |-> SyntaxError]
BlankBlock == [kind |-> "blank", event |-> <<>>, data |-> SyntaxError]

EncodeBlock(b) ==
    IF b.kind = "event" THEN Send(b.event, b.data)
    ELSE IF b.kind = "data" THEN DataField \o <<" ">> \o Stringify(b.data) \o <<LF, LF>>
    ELSE IF b.kind = "comment" THEN <<":", "k", LF, LF>>
    ELSE <<LF>>

RECURSIVE Encode(_)
Encode(blocks) == IF blocks = <<>> THEN <<>> ELSE EncodeBlock(Head(blocks)) \o Encode(Tail(blocks))

StartBlock(n) == EventBlock(StartName, JsonObject(RequestedKey, JsonNumber(n)))
ItemBlock(c) == EventBlock(ItemName, JsonObject(MediaIdKey, JsonString(c)))
SkipBlock(n) == EventBlock(SkipName, JsonObject(IndexKey, JsonNumber(n)))
DoneBlock(v) == EventBlock(DoneName, JsonObject(TextResponseKey, v))
ErrorBlock(c) == EventBlock(ErrorName, JsonObject(MessageKey, JsonString(c)))

BlockLists ==
    { <<StartBlock(2), ItemBlock("a"), ItemBlock("b"), DoneBlock(JsonNull)>>,
      <<StartBlock(1), SkipBlock(0), DoneBlock(JsonString("t"))>>,
      <<StartBlock(2), ItemBlock("a"), ErrorBlock("m")>>,
      <<StartBlock(1), ErrorBlock("m")>>,
      <<CommentBlock, StartBlock(1), BlankBlock, ItemBlock("a"),
        DataBlock(JsonObject(IndexKey, JsonNumber(7))), DoneBlock(JsonNull)>> }

StreamCounts == {1, 2}

(* the sizes reader.read() may give: any part of what is left, up to the
   whole of the longest stream *)
ChunkSizes == 1..(CHOOSE n \in {Len(Encode(b)) : b \in BlockLists} :
                     \A b \in BlockLists : Len(Encode(b)) <= n)

NextSse ==
    \/ \E blocks \in BlockLists, count \in StreamCounts : StreamOpen(blocks, Encode(blocks), count)
    \/ \E n \in ChunkSizes : ReadChunk(n)
    \/ ReadDone

SpecSse == InitGen /\ [][NextSse]_vars

(* the end of the same call when the whole stream arrives as one chunk *)
UnsplitFirst(c) == Flush([c EXCEPT !.rest = <<>>, !.buffer = c.stream])
UnsplitEnd(c) == IF c.pc = "raised" THEN c ELSE Returned(Flush(c))
Unsplit(c) == UnsplitEnd(UnsplitFirst(Reading(c.blocks, c.stream, c.count)))

(* the events the blocks of a stream carry, up to the first error event *)
RECURSIVE EventsUntilError(_)
EventsUntilError(blocks) ==
    IF blocks = <<>> THEN <<>>
    ELSE IF Head(blocks).kind \notin {"event", "data"} THEN EventsUntilError(Tail(blocks))
    ELSE IF Head(blocks).event = ErrorName THEN <<SseEvent(ErrorName, Head(blocks).data)>>
    ELSE <<SseEvent(Head(blocks).event, Head(blocks).data)>> \o EventsUntilError(Tail(blocks))

ItemEventsOf(events) == {k \in 1..Len(events) : events[k].event = ItemName}

DeliveredSoFar(c, all) ==
    Len(c.delivered) <= Len(all) /\ c.delivered = SubSeq(all, 1, Len(c.delivered))

(* C40: however the reader chunks a well-formed event stream (inside an
   event, inside the blank line between events), consumeSSE hands onEvent
   the same (event name, data) pairs as for the unsplit stream, in stream
   order and each once; the streamed generation returns produced equal to the
   number of item events, and raises exactly when an error event arrives. *)
C40_ChunkingEquivalence ==
    sse.pc # "idle" =>
        /\ DeliveredSoFar(sse, Unsplit(sse).delivered)
        /\ DeliveredSoFar(sse, EventsUntilError(sse.blocks))
        /\ sse.produced = Cardinality(ItemEventsOf(sse.delivered))
        /\ sse.pc \in {"returned", "raised"} =>
              /\ sse.delivered = Unsplit(sse).delivered
              /\ sse.delivered = EventsUntilError(sse.blocks)
              /\ sse.pc = Unsplit(sse).pc
              /\ sse.produced = Unsplit(sse).produced
              /\ sse.items = Unsplit(sse).items
              /\ sse.requested = Unsplit(sse).requested
              /\ sse.lastText = Unsplit(sse).lastText
              /\ sse.message = Unsplit(sse).message
              /\ sse.produced = Cardinality(ItemEventsOf(EventsUntilError(sse.blocks)))
              /\ sse.pc = "raised" <=>
                     \E k \in 1..Len(sse.blocks) : sse.blocks[k].event = ErrorName

(* a read that ended inside the blank line after an item event: the item is
   still in the buffer, the events before it are delivered *)
C40_Witness ==
    /\ sse.pc = "reading"
    /\ Len(sse.delivered) >= 2
    /\ sse.produced = 1
    /\ sse.buffer # <<>> /\ sse.buffer[Len(sse.buffer)] = LF
    /\ StartsWith(sse.buffer, EventField \o <<" ">> \o ItemName)
    /\ sse.rest # <<>> /\ sse.rest[1] = LF

====
